---- MODULE Spec2Model ----
(***************************************************************************)
(* Verification model of trainerday/fitness-machine-connector.             *)
(*                                                                         *)
(*   - DeviceSpecParser (src/renderer/services/device-spec-parser.ts):     *)
(*     the spec-driven decoder, modelled as operators computed as the      *)
(*     code computes them and applied by the action Parse.                 *)
(*   - the renderer's merge of decoded records into latestFitnessData and  *)
(*     its 1 s tick (src/renderer/index.ts).                               *)
(*   - the Windows GATT server's UpdateData / NotifyAsync pair             *)
(*     (FTMSBluetoothForwarder/FtmsGattServer.cs, Program.cs).             *)
(*   - the FTMS Control Point handlers of the Windows GATT server and of   *)
(*     the bleno server (FtmsGattServer.cs, main/main.ts).                 *)
(*   - the outbound encoders: _buildIndoorBikeData and the Feature value   *)
(*     of main/main.ts, FtmsDataBuilder.cs.                                *)
(*   - BlenoBroadcaster and its IndoorBikeDataCharacteristic with the      *)
(*     250 ms notification timer (main/main.ts).                           *)
(*   - the load of the spec registry and a sequence of parse calls on it   *)
(*     (device-spec-parser.ts, module initialisation).                     *)
(*   - the hard-coded Heart Rate Measurement decoders                      *)
(*     (fitness-data-parser.ts, shared/data-parsers.ts).                   *)
(*   - PythonBroadcaster: start, stop, the child's output, exit and error  *)
(*     events, the restart timer and the kill timer                        *)
(*     (main/bluetooth-broadcaster.ts).                                    *)
(*   - one IndoorBikeDataCharacteristic with several subscribing clients   *)
(*     (main/main.ts).                                                     *)
(*   - the hard-coded FTMS Indoor Bike Data decoder, applied to the        *)
(*     buffers of the two encoders (fitness-data-parser.ts).               *)
(*                                                                         *)
(* Conventions.                                                            *)
(*   - A JavaScript object is a function whose DOMAIN is the set of keys   *)
(*     it holds; the empty object {} is <<>>.                              *)
(*   - A decoded metric is Math.round(x * 100) / 100 in the code; the      *)
(*     model stores the integer Math.round(x * 100) (hundredths), x being  *)
(*     computed as the code's IEEE 754 doubles compute it.                 *)
(*   - An async C# handler is a record per invocation that advances from   *)
(*     one await to the next; a conversion whose result the language       *)
(*     leaves unspecified yields any of the results it can produce.        *)
(*   - An optional number of a device spec that the code tests by          *)
(*     truthiness (minLength, divisor, multiplier, flagOffset, flagSize,   *)
(*     factor) is 0 when it is not given: the code treats 0 and undefined  *)
(*     alike there.                                                        *)
(*   - A payload (DataView) is a sequence of bytes; byte offset k of the   *)
(*     code is element k + 1.                                              *)
(***************************************************************************)
EXTENDS Integers, Sequences, FiniteSets, Bags, TLC

VARIABLES
    \* DeviceSpecParser.parse
    inUuid,             \* argument characteristicUuid of the last call
    inPayload,          \* argument rawValue of the last call
    result,             \* outcome of the last call
    pc,                 \* "ready" before a call, "done" after one
    \* renderer (index.ts)
    latestFitnessData,  \* [isNull, fields]: null, or the merged snapshot
    updateInterval,     \* TRUE while the 1 s interval timer is armed
    isBroadcasting,     \* statusIndicator.getIsBroadcasting()
    lastSent,           \* last FtmsOutput given to broadcasterSendData
    \* Windows GATT server (FtmsGattServer.cs, Program.cs)
    currentData,        \* _currentData
    notifyPc,           \* position of the notify loop inside NotifyAsync
    notifyData,         \* local variable data of NotifyAsync
    notifyLoop,         \* the foreach NotifyAsync is in: [left, writer]
    subscribed,         \* _indoorBikeDataChar.SubscribedClients.Count
    hrSubscribed,       \* _heartRateMeasurementChar.SubscribedClients.Count
    notified,           \* Indoor Bike Data values this NotifyAsync sent so far
    hrNotified,         \* Heart Rate Measurement values it sent so far
    written,            \* history: the snapshots handed to UpdateData, in order
    \* renderer (index.ts), timers
    liveIntervals,      \* number of setInterval timers armed and not cleared
    \* control point (FtmsGattServer.cs and the bleno controlPointChar)
    controlGranted,     \* _controlGranted
    cpClients,          \* _controlPointChar.SubscribedClients.Count
    blenoCpCallback,    \* controlPointChar._updateValueCallback is set
    backendType,        \* BluetoothBroadcaster.backendType
    cpHandlers,         \* bag of the OnControlPointWriteRequested calls
                        \* in progress
    cpWrite,            \* the last write the bleno Control Point was given
    cpOut,              \* what its handler did for it
    \* encoders (main.ts, FtmsDataBuilder.cs)
    encRecord,          \* FtmsOutput record given to _buildIndoorBikeData
    encFitness,         \* FitnessData given to BuildIndoorBikeData
    encOut,             \* outcome of the last encoder or feature call
    \* BlenoBroadcaster and IndoorBikeDataCharacteristic (main.ts)
    blenoStatus,        \* this.status.state
    pendingStart,       \* this.pendingStart
    blenoPoweredOn,     \* bleno.state === 'poweredOn'
    advertising,        \* bleno is advertising
    servicesPending,    \* bleno.setServices was called, its callback not yet
    clientConnected,    \* a central is connected to the peripheral
    bikeChars,          \* the IndoorBikeDataCharacteristic objects created
    bikeDelivered,      \* history flag and value of the last notification
    stoppedSince,       \* TRUE from stop() until the next start()
    \* spec registry (device-spec-parser.ts, module level)
    specFiles,          \* the imported JSON specs, in the order of deviceSpecs
    registry,           \* the Map specByCharacteristic
    loadOutcome,        \* how the module-level initialisation ended
    parseLog,           \* history: the parse calls made, with their records
    \* hard-coded parsers (fitness-data-parser.ts, data-parsers.ts)
    hrParsed,           \* outcome of the last Heart Rate Measurement decode
    \* PythonBroadcaster (main/bluetooth-broadcaster.ts)
    python,             \* the object's fields, the child processes, the timers
    pyStoppedSince,     \* history: stop() was called on a held process,
                        \* start() not since
    pyRestartsInRow,    \* history: restarts in a row of a process that exited
                        \* without any output, no start() / stop() between
    pyKilled,           \* history: the running children kill() was called on
    \* one IndoorBikeDataCharacteristic and its clients (main/main.ts)
    bikeChar,           \* the object: callbacks held, timer handle, live timers
    bikeCallbacks,      \* _subscribers: the client of each callback, in order
    bikeSubscribed,     \* the clients that subscribed and did not unsubscribe
    bikeInvoked,        \* the clients whose callback the last tick called
    \* FitnessDataParser.parseFtmsIndoorBikeData (fitness-data-parser.ts)
    ftmsDecoded         \* outcome of the last decode and the buffer it was given

parserVars == <<inUuid, inPayload, result, pc>>

rendererVars == <<latestFitnessData, updateInterval, isBroadcasting, lastSent,
                  liveIntervals>>

gattVars == <<currentData, notifyPc, notifyData, notifyLoop, subscribed,
              hrSubscribed, notified, hrNotified, written>>

controlVars == <<controlGranted, cpClients, blenoCpCallback, backendType,
                 cpHandlers, cpWrite, cpOut>>

encoderVars == <<encRecord, encFitness, encOut>>

blenoVars == <<blenoStatus, pendingStart, blenoPoweredOn, advertising,
               servicesPending, clientConnected, bikeChars, bikeDelivered,
               stoppedSince>>

registryVars == <<specFiles, registry, loadOutcome, parseLog>>

legacyVars == <<hrParsed>>

pythonVars == <<python, pyStoppedSince, pyRestartsInRow, pyKilled>>

charVars == <<bikeChar, bikeCallbacks, bikeSubscribed, bikeInvoked>>

decoderVars == <<ftmsDecoded>>

vars == <<inUuid, inPayload, result, pc,
          latestFitnessData, updateInterval, isBroadcasting, lastSent,
          currentData, notifyPc, notifyData, notifyLoop, subscribed,
          hrSubscribed, notified, hrNotified, written,
          liveIntervals,
          controlGranted, cpClients, blenoCpCallback, backendType,
          cpHandlers, cpWrite, cpOut,
          encRecord, encFitness, encOut,
          blenoStatus, pendingStart, blenoPoweredOn, advertising,
          servicesPending, clientConnected, bikeChars, bikeDelivered,
          stoppedSince,
          specFiles, registry, loadOutcome, parseLog,
          hrParsed,
          python, pyStoppedSince, pyRestartsInRow, pyKilled,
          bikeChar, bikeCallbacks, bikeSubscribed, bikeInvoked,
          ftmsDecoded>>

----------------------------------------------------------------------------
(* Bounds of the model.                                                    *)

MaxPayloadLen == 5

\* Byte values payloads are built from: 0, flag words with bits {2,6},
\* {0,1,3,6}, {2,4,6} and all bits, which are also the metric values 68, 75,
\* 84 and 255.
ByteVals == {0, 68, 75, 84, 255}

Payloads == UNION {[1..n -> ByteVals] : n \in 0..MaxPayloadLen}

----------------------------------------------------------------------------
(* Arithmetic helpers.                                                     *)

Pow2(n) == 2^n

\* JavaScript (x & (1 << bit)) !== 0 for 0 <= x < 2^31: the shift count is
\* taken modulo 32 and bit 31 never intersects x.
BitSet(x, bit) == (x \div Pow2(bit % 32)) % 2 = 1

\* Two's-complement reinterpretation done by getInt16 / getInt32.
ToSigned(x, w) == IF x >= Pow2(w - 1) THEN x - Pow2(w) ELSE x

\* Math.round(n / d): the nearest integer, halves towards +infinity.
\* Written with quotient and remainder so that no intermediate exceeds n.
RoundDiv(n, d) ==
    LET nn == IF d > 0 THEN n ELSE -n
        dd == IF d > 0 THEN d ELSE -d
        q  == nn \div dd
        r  == nn % dd
    IN  IF 2 * r >= dd THEN q + 1 ELSE q

RECURSIVE SeqProduct(_)
SeqProduct(s) == IF s = <<>> THEN 1 ELSE Head(s) * SeqProduct(Tail(s))

RECURSIVE SeqSum(_)
SeqSum(s) == IF s = <<>> THEN 0 ELSE Head(s) + SeqSum(Tail(s))

----------------------------------------------------------------------------
(* The arithmetic of JavaScript numbers: IEEE 754 doubles, each operation  *)
(* rounded to nearest, ties to even, on 53 binary digits.                  *)

\* Natural numbers of any size are sequences of digits in base 2^15, least
\* significant first, without leading zeros: the product of two digits stays
\* within 32 bits.
LimbBits == 15

Limb == 2 ^ LimbBits

Digit(a, i) == IF i \in 1..Len(a) THEN a[i] ELSE 0

LimbZeros(n) == [i \in 1..n |-> 0]

BigStrip(a) ==
    SubSeq(a, 1, CHOOSE n \in 0..Len(a) :
                     /\ n = 0 \/ a[n] # 0
                     /\ \A j \in (n + 1)..Len(a) : a[j] = 0)

BigOfNat(n) == BigStrip(<<n % Limb, (n \div Limb) % Limb, n \div (Limb * Limb)>>)

RECURSIVE NatOfBig(_)
NatOfBig(a) == IF a = <<>> THEN 0 ELSE Head(a) + Limb * NatOfBig(Tail(a))

RECURSIVE BigAddFrom(_, _, _, _)
BigAddFrom(a, b, i, carry) ==
    IF i > Len(a) /\ i > Len(b) THEN (IF carry = 0 THEN <<>> ELSE <<carry>>)
    ELSE <<(Digit(a, i) + Digit(b, i) + carry) % Limb>>
         \o BigAddFrom(a, b, i + 1, (Digit(a, i) + Digit(b, i) + carry) \div Limb)

BigAdd(a, b) == BigStrip(BigAddFrom(a, b, 1, 0))

RECURSIVE BigSubFrom(_, _, _, _)
BigSubFrom(a, b, i, borrow) ==
    IF i > Len(a) THEN <<>>
    ELSE <<(a[i] - Digit(b, i) - borrow) % Limb>>
         \o BigSubFrom(a, b, i + 1,
                       IF a[i] - Digit(b, i) - borrow < 0 THEN 1 ELSE 0)

\* a - b for a >= b
BigSub(a, b) == BigStrip(BigSubFrom(a, b, 1, 0))

\* a >= b: no digit of a is the smaller one with all digits above it equal
BigGeq(a, b) ==
    IF Len(a) # Len(b) THEN Len(a) > Len(b)
    ELSE ~\E i \in 1..Len(a) :
              a[i] < b[i] /\ \A j \in (i + 1)..Len(a) : a[j] = b[j]

RECURSIVE BigScaleFrom(_, _, _, _)
BigScaleFrom(a, k, i, carry) ==
    IF i > Len(a) THEN (IF carry = 0 THEN <<>> ELSE <<carry>>)
    ELSE <<(a[i] * k + carry) % Limb>>
         \o BigScaleFrom(a, k, i + 1, (a[i] * k + carry) \div Limb)

\* a * k for 0 <= k <= Limb
BigScale(a, k) == IF k = 0 THEN <<>> ELSE BigScaleFrom(a, k, 1, 0)

RECURSIVE BigMulFrom(_, _, _)
BigMulFrom(a, b, j) ==
    IF j > Len(b) THEN <<>>
    ELSE BigAdd(LimbZeros(j - 1) \o BigScale(a, b[j]), BigMulFrom(a, b, j + 1))

BigMul(a, b) == IF a = <<>> \/ b = <<>> THEN <<>> ELSE BigMulFrom(a, b, 1)

\* The number of binary digits of a
BitLen(a) ==
    IF a = <<>> THEN 0
    ELSE LimbBits * (Len(a) - 1)
         + (CHOOSE k \in 1..LimbBits :
                2 ^ (k - 1) <= a[Len(a)] /\ a[Len(a)] < 2 ^ k)

\* a * 2^k
BigShl(a, k) ==
    IF a = <<>> THEN <<>>
    ELSE LimbZeros(k \div LimbBits) \o BigScale(a, 2 ^ (k % LimbBits))

\* a \div 2^k
BigShr(a, k) ==
    BigStrip([i \in 1..(Len(a) - k \div LimbBits) |->
        (a[i + k \div LimbBits] \div 2 ^ (k % LimbBits))
        + (Digit(a, i + k \div LimbBits + 1) % 2 ^ (k % LimbBits))
          * 2 ^ (LimbBits - (k % LimbBits))])

\* The binary digit of a of weight 2^k
BigBit(a, k) == (Digit(a, k \div LimbBits + 1) \div 2 ^ (k % LimbBits)) % 2

\* Some binary digit of a of weight below 2^k is set.
BigLowSet(a, k) == \E i \in 0..(k - 1) : BigBit(a, i) = 1

\* The quotient digit of cur by b (cur < b * Limb, the top digit of b at
\* least Limb / 2): the estimate from the two top digits of cur is at most 2
\* too large.
QuotDigit(cur, b, estimate) ==
    CHOOSE q \in (estimate - 2)..estimate :
        /\ q >= 0
        /\ BigGeq(cur, BigScale(b, q))
        /\ ~BigGeq(cur, BigScale(b, q + 1))

QuotEstimate(cur, b) ==
    IF Digit(cur, Len(b) + 1) >= b[Len(b)] THEN Limb - 1
    ELSE (Digit(cur, Len(b) + 1) * Limb + Digit(cur, Len(b))) \div b[Len(b)]

\* Long division of a by b, from the digit i of a down, given the quotient
\* and the remainder of the digits above i: the quotient, and whether the
\* division is exact.
RECURSIVE BigDivLoop(_, _, _, _, _)
BigDivStep(a, b, i, quot, cur, q) ==
    BigDivLoop(a, b, i - 1, <<q>> \o quot, BigSub(cur, BigScale(b, q)))

BigDivDigit(a, b, i, quot, cur) ==
    BigDivStep(a, b, i, quot, cur, QuotDigit(cur, b, QuotEstimate(cur, b)))

BigDivLoop(a, b, i, quot, rem) ==
    IF i = 0 THEN [quot |-> BigStrip(quot), exact |-> rem = <<>>]
    ELSE BigDivDigit(a, b, i, quot, BigStrip(<<a[i]>> \o rem))

\* a / b for b # 0, both scaled to make the top digit of b at least Limb / 2
BigDiv(a, b) ==
    BigDivLoop(BigShl(a, LimbBits * Len(b) - BitLen(b)),
               BigShl(b, LimbBits * Len(b) - BitLen(b)),
               Len(BigShl(a, LimbBits * Len(b) - BitLen(b))), <<>>, <<>>)

\* A double: sign, significand (at most 53 binary digits) and binary
\* exponent; its value is (-1)^neg * sig * 2^exp.  Values stay far from the
\* subnormal and the overflow range.
Dbl(neg, sig, exp) == [neg |-> neg, sig |-> sig, exp |-> exp]

DblOfInt(n) == Dbl(n < 0, BigOfNat(IF n < 0 THEN -n ELSE n), 0)

\* Dropping the lowest drop digits of sig rounds up: the first dropped digit
\* is set, and so is a digit below it or the last digit kept (ties to even).
RoundsUp(sig, drop, inexact) ==
    /\ BigBit(sig, drop - 1) = 1
    /\ inexact \/ BigLowSet(sig, drop - 1) \/ BigBit(sig, drop) = 1

DblDrop(neg, sig, exp, inexact, drop) ==
    Dbl(neg,
        IF RoundsUp(sig, drop, inexact) THEN BigAdd(BigShr(sig, drop), <<1>>)
        ELSE BigShr(sig, drop),
        exp + drop)

\* Round to nearest, ties to even, to 53 digits; inexact tells that digits
\* below the given ones were dropped already.
DblRound(neg, sig, exp, inexact) ==
    IF BitLen(sig) <= 53 THEN Dbl(neg, sig, exp)
    ELSE DblDrop(neg, sig, exp, inexact, BitLen(sig) - 53)

\* x * y
DblMul(x, y) == DblRound(x.neg # y.neg, BigMul(x.sig, y.sig), x.exp + y.exp, FALSE)

\* The quotient of the significands is taken to at least 55 digits.
DivShift(x, y) ==
    IF BitLen(x.sig) < 55 + BitLen(y.sig)
    THEN 55 + BitLen(y.sig) - BitLen(x.sig) ELSE 0

DblQuotient(neg, qr, exp) == DblRound(neg, qr.quot, exp, ~qr.exact)

\* x / y for y # 0
DblDiv(x, y) ==
    IF x.sig = <<>> THEN Dbl(x.neg # y.neg, <<>>, 0)
    ELSE DblQuotient(x.neg # y.neg,
                     BigDiv(BigShl(x.sig, DivShift(x, y)), y.sig),
                     x.exp - y.exp - DivShift(x, y))

\* Math.round(x): floor(x + 0.5), the sum being exact
MathRound(x) ==
    IF x.exp >= 0 THEN (IF x.neg THEN -1 ELSE 1) * NatOfBig(BigShl(x.sig, x.exp))
    ELSE IF x.neg
    THEN -(NatOfBig(BigShr(x.sig, -x.exp))
           + (IF BigBit(x.sig, (-x.exp) - 1) = 1 /\ BigLowSet(x.sig, (-x.exp) - 1)
              THEN 1 ELSE 0))
    ELSE NatOfBig(BigShr(x.sig, -x.exp)) + BigBit(x.sig, (-x.exp) - 1)

\* n / d lies exactly halfway between two integers (d # 0).
HalfWay(n, d) ==
    LET nn == IF d > 0 THEN n ELSE -n
        dd == IF d > 0 THEN d ELSE -d
    IN  2 * (nn % dd) = dd

\* The number stored for r hundredths: Math.round(...) / 100
DblOfStored(r) == DblDiv(DblOfInt(r), DblOfInt(100))

\* values.reduce((a, b) => a * b, acc)
RECURSIVE DblProduct(_, _)
DblProduct(values, acc) ==
    IF values = <<>> THEN acc
    ELSE DblProduct(Tail(values), DblMul(acc, DblOfStored(Head(values))))

----------------------------------------------------------------------------
(* Binary field codec.                                                     *)

byteLength(value) == Len(value)

\* DataView.getUint8 inside the view.
getUint8(value, offset) == value[offset + 1]

getTypeSize(type) ==
    CASE type = "uint8"  -> 1
      [] type = "uint16" -> 2
      [] type = "int16"  -> 2
      [] type = "uint24" -> 3
      [] type = "uint32" -> 4
      [] type = "int32"  -> 4
      [] OTHER           -> 1

getUint16(value, offset, littleEndian) ==
    IF littleEndian
    THEN getUint8(value, offset) + 256 * getUint8(value, offset + 1)
    ELSE 256 * getUint8(value, offset) + getUint8(value, offset + 1)

getUint32(value, offset, littleEndian) ==
    IF littleEndian
    THEN getUint8(value, offset) + 256 * getUint8(value, offset + 1)
         + 65536 * getUint8(value, offset + 2)
         + 16777216 * getUint8(value, offset + 3)
    ELSE 16777216 * getUint8(value, offset)
         + 65536 * getUint8(value, offset + 1)
         + 256 * getUint8(value, offset + 2) + getUint8(value, offset + 3)

readValue(value, offset, type, endian) ==
    LET littleEndian == (endian = "little") IN
    CASE type = "uint8"  -> getUint8(value, offset)
      [] type = "uint16" -> getUint16(value, offset, littleEndian)
      [] type = "int16"  -> ToSigned(getUint16(value, offset, littleEndian), 16)
      [] type = "uint24" -> getUint8(value, offset)
                            + 256 * getUint8(value, offset + 1)
                            + 65536 * getUint8(value, offset + 2)
      [] type = "uint32" -> getUint32(value, offset, littleEndian)
      [] type = "int32"  -> ToSigned(getUint32(value, offset, littleEndian), 32)
      [] OTHER           -> getUint8(value, offset)

\* The scaling with the two factors in each other's place: the raw value
\* times the divisor, over the multiplier.
ScaleAndRoundSwapped(rawValue, divisor, multiplier) ==
    LET d == IF divisor = 0 THEN 1 ELSE divisor
        m == IF multiplier = 0 THEN 1 ELSE multiplier
    IN  RoundDiv(rawValue * d * 100, m)

\* rawValue /= divisor (if given); rawValue *= multiplier (if given);
\* Math.round(rawValue * 100) in doubles.
DblDivided(x, divisor) == IF divisor # 0 THEN DblDiv(x, DblOfInt(divisor)) ELSE x

DblMultiplied(x, multiplier) ==
    IF multiplier # 0 THEN DblMul(x, DblOfInt(multiplier)) ELSE x

ScaleAndRoundDbl(rawValue, divisor, multiplier) ==
    MathRound(DblMul(DblMultiplied(DblDivided(DblOfInt(rawValue), divisor),
                                   multiplier),
                     DblOfInt(100)))

\* rawValue /= divisor (if given); rawValue *= multiplier (if given);
\* Math.round(rawValue * 100), the stored number in hundredths.  The three
\* roundings of the doubles move the product by less than 2^-50 of its
\* size, so that they decide the result only when the exact product lies
\* halfway between two integers; elsewhere it is the exact quotient rounded.
ScaleAndRound(rawValue, divisor, multiplier) ==
    LET d == IF divisor = 0 THEN 1 ELSE divisor
        m == IF multiplier = 0 THEN 1 ELSE multiplier
    IN  IF HalfWay(rawValue * m * 100, d)
        THEN ScaleAndRoundDbl(rawValue, divisor, multiplier)
        ELSE RoundDiv(rawValue * m * 100, d)

\* field.name.startsWith('_')
startsWithUnderscore(name) == Len(name) > 0 /\ SubSeq(name, 1, 1) = "_"

----------------------------------------------------------------------------
(* UUID normalisation and the spec registry.                               *)
(* A BluetoothUuid is a number or a string; a string is a sequence of      *)
(* one-character strings.                                                  *)

HexDigits == <<"0","1","2","3","4","5","6","7","8","9","a","b","c","d","e","f">>

NumUuid(n) == [isNumber |-> TRUE, num |-> n, str |-> <<>>]
StrUuid(s) == [isNumber |-> FALSE, num |-> 0, str |-> s]

\* Number.prototype.toString(16)
RECURSIVE toHexString(_)
toHexString(n) ==
    IF n < 16 THEN <<HexDigits[n + 1]>>
    ELSE toHexString(n \div 16) \o <<HexDigits[(n % 16) + 1]>>

toLowerChar(c) ==
    CASE c = "A" -> "a" [] c = "B" -> "b" [] c = "C" -> "c"
      [] c = "D" -> "d" [] c = "E" -> "e" [] c = "F" -> "f"
      [] c = "X" -> "x" [] OTHER -> c

toLowerCase(s) == [i \in 1..Len(s) |-> toLowerChar(s[i])]

\* hex.replace(/^0+/, '')
RECURSIVE stripLeadingZeros(_)
stripLeadingZeros(s) ==
    IF s # <<>> /\ Head(s) = "0" THEN stripLeadingZeros(Tail(s)) ELSE s

startsWith0x(s) == Len(s) >= 2 /\ s[1] = "0" /\ s[2] = "x"

normalizeUuid(uuid) ==
    IF uuid.isNumber
    THEN LET hex == stripLeadingZeros(toLowerCase(toHexString(uuid.num)))
         IN  IF hex = <<>> THEN <<"0">> ELSE hex
    ELSE IF startsWith0x(uuid.str)
    THEN LET hex == stripLeadingZeros(
                        toLowerCase(SubSeq(uuid.str, 3, Len(uuid.str))))
         IN  IF hex = <<>> THEN <<"0">> ELSE hex
    ELSE toLowerCase(uuid.str)

----------------------------------------------------------------------------
(* Device specs.  The parser is generic over DeviceSpec values; the        *)
(* registry below holds specs that exercise every construct of the         *)
(* DeviceSpec schema (static and dynamic mode, minLength, validation,      *)
(* conditions, linked / skipped / inverted dynamic fields, computed        *)
(* fields).                                                                *)

EmptyRecord == [x \in {} |-> 0]

NoCondition ==
    [present |-> FALSE, hasFlag |-> FALSE, flagOffset |-> 0, flagBit |-> 0,
     flagValue |-> TRUE, hasMin |-> FALSE, min |-> 0, hasMax |-> FALSE,
     max |-> 0]

RangeCondition(lo, hi) ==
    [present |-> TRUE, hasFlag |-> FALSE, flagOffset |-> 0, flagBit |-> 0,
     flagValue |-> TRUE, hasMin |-> TRUE, min |-> lo, hasMax |-> TRUE,
     max |-> hi]

FlagCondition(off, bit, val) ==
    [present |-> TRUE, hasFlag |-> TRUE, flagOffset |-> off, flagBit |-> bit,
     flagValue |-> val, hasMin |-> FALSE, min |-> 0, hasMax |-> FALSE,
     max |-> 0]

StaticField(name, offset, type, endian, divisor, multiplier, condition) ==
    [name |-> name, offset |-> offset, type |-> type, endian |-> endian,
     divisor |-> divisor, multiplier |-> multiplier, condition |-> condition]

DynamicField(name, type, flagBit, flagInverted, divisor, skip, linked) ==
    [name |-> name, type |-> type, flagBit |-> flagBit,
     flagInverted |-> flagInverted, divisor |-> divisor, multiplier |-> 0,
     skip |-> skip, linkedToPrevious |-> linked]

ComputedField(name, operation, operands, factorNum, factorDen) ==
    [name |-> name, operation |-> operation, operands |-> operands,
     factorNum |-> factorNum, factorDen |-> factorDen]

NoValidation == [magicBytes |-> <<>>, versionCheck |-> <<>>]

DeviceSpec(id, uuid, minLen, valid, mode, fOff, fSize, fs, dfs, comp) ==
    [id |-> id, characteristicUuid |-> uuid, minLength |-> minLen,
     validation |-> valid, mode |-> mode, flagOffset |-> fOff,
     flagSize |-> fSize, fields |-> fs, dynamicFields |-> dfs,
     computed |-> comp]

\* Dynamic, 2-byte flags at offset 0, fields at flag bits 2, 4 and 6.
dynamicSpec ==
    DeviceSpec("dyn246", <<"0","x","2","A","D","2">>, 0, NoValidation,
        "dynamic", 0, 0, <<>>,
        << DynamicField("cadence", "uint8", 2, FALSE, 0, FALSE, FALSE),
           DynamicField("resistance", "uint16", 4, FALSE, 10, FALSE, FALSE),
           DynamicField("power", "uint8", 6, FALSE, 0, FALSE, FALSE) >>,
        <<>>)

\* Dynamic, 1-byte flags, an inverted flag on a field with divisor 8 and
\* multiplier 3, a linked group member, a skipped field and an
\* internal-use name.
linkedSpec ==
    DeviceSpec("linked", <<"0","x","0","0","2","a">>, 0, NoValidation,
        "dynamic", 0, 1, <<>>,
        << [DynamicField("speed", "uint8", 0, TRUE, 8, FALSE, FALSE)
                EXCEPT !.multiplier = 3],
           DynamicField("avgSpeed", "uint8", 0, TRUE, 0, FALSE, TRUE),
           DynamicField("heartRate", "uint8", 2, FALSE, 0, FALSE, FALSE),
           DynamicField("energy", "uint8", 4, FALSE, 0, TRUE, FALSE),
           DynamicField("_reserved", "uint8", 6, FALSE, 0, FALSE, FALSE) >>,
        <<>>)

\* Static, minLength, magic byte and version check, range conditions on a
\* one-byte field and on a big-endian two-byte field.
validatedSpec ==
    DeviceSpec("validated", <<"0","x","2","a","3","7">>, 2,
        [magicBytes |-> <<[offset |-> 0, value |-> 75]>>,
         versionCheck |-> <<[offset |-> 2, value |-> 0]>>],
        "static", 0, 0,
        << StaticField("heartRate", 1, "uint8", "little", 0, 0,
                       RangeCondition(1, 250)),
           StaticField("cadence", 3, "uint16", "big", 0, 0,
                       RangeCondition(1, 250)) >>,
        <<>>, <<>>)

\* Static, computed fields (multiply with factor 0.15, divide, sum; a
\* divide with one operand, which is NaN, and fields computed from it).
computedSpec ==
    DeviceSpec("computed", <<"0","x","2","a","6","3">>, 0, NoValidation,
        "static", 0, 0,
        << StaticField("cadence", 0, "uint8", "little", 0, 0, NoCondition),
           StaticField("resistance", 1, "uint8", "little", 0, 0,
                       RangeCondition(0, 254)),
           StaticField("_reserved", 2, "uint8", "little", 0, 0, NoCondition),
           StaticField("duration", 3, "int16", "little", 1000, 3, NoCondition) >>,
        <<>>,
        << ComputedField("power", "multiply", <<"cadence", "resistance">>,
                         3, 20),
           ComputedField("speed", "divide", <<"cadence", "resistance">>,
                         0, 1),
           ComputedField("distance", "sum", <<"power", "speed">>, 0, 1),
           ComputedField("ratio", "divide", <<"cadence">>, 0, 1),
           ComputedField("load", "multiply", <<"ratio", "cadence">>, 0, 1),
           ComputedField("total", "sum", <<"cadence", "ratio">>, 0, 1),
           ComputedField("share", "divide", <<"cadence", "ratio">>, 0, 1) >>)

\* Static, a field gated by a flag byte that lies behind the field.
flagConditionSpec ==
    DeviceSpec("flagcond", <<"0","x","2","a","5","b">>, 0, NoValidation,
        "static", 0, 0,
        << StaticField("power", 0, "uint8", "little", 0, 0, NoCondition),
           StaticField("cadence", 1, "uint8", "little", 0, 0,
                       FlagCondition(3, 2, TRUE)),
           StaticField("gear", 2, "uint8", "little", 0, 0, NoCondition) >>,
        <<>>, <<>>)

\* Static, fields declared out of offset order: the first declared field
\* (signed, divisor 8 and multiplier 3) lies behind the two declared after
\* it.
unorderedSpec ==
    DeviceSpec("unordered", <<"0","x","2","a","5","d">>, 0, NoValidation,
        "static", 0, 0,
        << StaticField("power", 2, "int16", "little", 8, 3, NoCondition),
           StaticField("heartRate", 0, "uint8", "little", 0, 0, NoCondition),
           StaticField("gear", 1, "uint8", "little", 0, 0,
                       RangeCondition(1, 250)) >>,
        <<>>, <<>>)

deviceSpecs ==
    <<dynamicSpec, linkedSpec, validatedSpec, computedSpec, flagConditionSpec,
      unorderedSpec>>

\* deviceSpecs.forEach(spec => specByCharacteristic.set(normalizeUuid(..), spec))
RECURSIVE buildRegistry(_, _)
buildRegistry(specs, map) ==
    IF specs = <<>> THEN map
    ELSE buildRegistry(Tail(specs),
            (normalizeUuid(StrUuid(Head(specs).characteristicUuid))
                :> Head(specs)) @@ map)

specByCharacteristic == buildRegistry(deviceSpecs, EmptyRecord)

\* An imported JSON spec: the value cast to DeviceSpec and the root fields
\* the JSON file does not have (the cast checks nothing at run time).
JsonSpec(spec, missing) == [spec |-> spec, missing |-> missing]

\* The value of a property the JSON file does not have.
Undefined == "undefined"

\* A second spec on the characteristic of dynamicSpec, spelt "0x002ad2".
duplicateSpec ==
    DeviceSpec("dup", <<"0","x","0","0","2","a","d","2">>, 0, NoValidation,
        "static", 0, 0,
        << StaticField("heartRate", 0, "uint8", "little", 0, 0, NoCondition) >>,
        <<>>, <<>>)

\* JSON files the registry is loaded from in the model: well-formed ones,
\* one on an already registered characteristic, and ones lacking a root
\* field.
JsonSpecFiles ==
    { JsonSpec(dynamicSpec, {}),
      JsonSpec(validatedSpec, {}),
      JsonSpec(duplicateSpec, {}),
      JsonSpec(computedSpec, {"name"}),
      JsonSpec(flagConditionSpec, {"characteristicUuid"}),
      JsonSpec([linkedSpec EXCEPT !.id = Undefined], {"id"}) }

\* How the module-level initialisation ended: status "pending" before it,
\* "loaded" when the forEach completed, "raised" when an exception left
\* it; spec is the spec id the error message names, "none" if it names none.
LoadOutcome(status, spec) == [status |-> status, spec |-> spec]

\* The forEach of the module initialisation over the imported JSON specs:
\* normalizeUuid(spec.characteristicUuid) calls uuid.startsWith on
\* undefined when the file has no characteristicUuid (a TypeError that
\* names no spec); otherwise Map.set, the last registration replacing an
\* earlier one under the same key.
RECURSIVE loadRegistry(_, _)
loadRegistry(files, st) ==
    IF files = <<>> THEN st
    ELSE LET file == Head(files) IN
         IF "characteristicUuid" \in file.missing
         THEN [st EXCEPT !.outcome = LoadOutcome("raised", "none")]
         ELSE loadRegistry(Tail(files),
                [st EXCEPT !.map =
                    (normalizeUuid(StrUuid(file.spec.characteristicUuid))
                        :> file.spec) @@ @])

\* The 128-bit string form of the 16-bit UUID 0x2ad2 (Bluetooth base UUID),
\* as BluetoothRemoteGATTCharacteristic.uuid spells it, in upper case.
Uuid128Of2ad2 ==
    StrUuid(<<"0","0","0","0","2","A","D","2","-","0","0","0","0","-",
              "1","0","0","0","-","8","0","0","0","-",
              "0","0","8","0","5","F","9","B","3","4","F","B">>)

\* Characteristic identifiers handed to parse(): the numeric form Web
\* Bluetooth delivers, string forms (with leading zeros, 128-bit), and one
\* no spec is registered for.
Uuids ==
    { NumUuid(10962),                         \* 0x2ad2 -> dynamicSpec
      StrUuid(<<"0","x","0","0","2","A","D","2">>),   \* "0x002AD2"
      Uuid128Of2ad2,
      NumUuid(42),                            \* 0x002a -> linkedSpec
      NumUuid(10807),                         \* 0x2a37 -> validatedSpec
      StrUuid(<<"0","x","2","A","6","3">>),   \* computedSpec
      NumUuid(10843),                         \* 0x2a5b -> flagConditionSpec
      NumUuid(10845),                         \* 0x2a5d -> unorderedSpec
      NumUuid(6182) }                         \* 0x1826 -> no spec

----------------------------------------------------------------------------
(* DeviceSpecParser.                                                       *)
(* The field loops thread a state st = [data, offset, raised, trace]:      *)
(* data is the record under construction, offset the dynamic-mode cursor,  *)
(* raised says a DataView access outside the view threw a RangeError       *)
(* (nothing in the parser catches it), and trace has one entry per loop    *)
(* iteration executed: what the iteration did and at which byte offset.    *)

TraceEntry(kind, name, offset, size) ==
    [kind |-> kind, name |-> name, offset |-> offset, size |-> size]

Store(data, name, v) == (name :> v) @@ data

\* validate(): the magic-byte loop, first failing check returns false.
RECURSIVE magicBytesPass(_, _)
magicBytesPass(checks, value) ==
    IF checks = <<>> THEN TRUE
    ELSE LET check == Head(checks) IN
         IF byteLength(value) <= check.offset THEN FALSE
         ELSE IF getUint8(value, check.offset) # check.value THEN FALSE
         ELSE magicBytesPass(Tail(checks), value)

\* validate() without its version check.
validateMagicOnly(rules, value) == magicBytesPass(rules.magicBytes, value)

validate(rules, value) ==
    IF ~magicBytesPass(rules.magicBytes, value) THEN FALSE
    ELSE IF rules.versionCheck # <<>>
    THEN LET vc == rules.versionCheck[1] IN
         IF byteLength(value) <= vc.offset THEN FALSE
         ELSE IF getUint8(value, vc.offset) # vc.value THEN FALSE
         ELSE TRUE
    ELSE TRUE

\* checkCondition(): "raise" when the flag byte lies outside the view
\* (value.getUint8(condition.flagOffset) is not guarded by a length test),
\* else "true" / "false".
checkCondition(condition, value, offset, type) ==
    IF condition.hasFlag /\ condition.flagOffset >= byteLength(value)
    THEN "raise"
    ELSE IF condition.hasFlag
            /\ BitSet(getUint8(value, condition.flagOffset), condition.flagBit)
               # condition.flagValue
    THEN "false"
    ELSE IF condition.hasMin \/ condition.hasMax
    THEN LET rawValue == readValue(value, offset, type, "little") IN
         IF condition.hasMin /\ rawValue < condition.min THEN "false"
         ELSE IF condition.hasMax /\ rawValue > condition.max THEN "false"
         ELSE "true"
    ELSE "true"

\* The loop iteration with a read that is not guarded by the length test:
\* a field that does not fit in the payload raises a RangeError.
staticFieldStepRaiseOnShort(field, value, st) ==
    LET size == getTypeSize(field.type) IN
    IF byteLength(value) < field.offset + size
    THEN [st EXCEPT !.raised = TRUE,
                    !.trace = Append(@, TraceEntry("raise", field.name,
                                                   field.offset, size))]
    ELSE
    LET cond == IF field.condition.present
                THEN checkCondition(field.condition, value, field.offset,
                                    field.type)
                ELSE "true"
    IN
    IF cond = "raise"
    THEN [st EXCEPT !.raised = TRUE,
                    !.trace = Append(@, TraceEntry("raise", field.name,
                                                   field.offset, size))]
    ELSE IF cond = "false"
    THEN [st EXCEPT !.trace =
            Append(@, TraceEntry("condition", field.name, field.offset, size))]
    ELSE
    LET rawValue == readValue(value, field.offset, field.type, field.endian)
        stored   == ScaleAndRound(rawValue, field.divisor, field.multiplier)
    IN  [st EXCEPT
            !.data = IF startsWithUnderscore(field.name) THEN @
                     ELSE Store(@, field.name, stored),
            !.trace = Append(@, TraceEntry("read", field.name, field.offset,
                                           size))]

\* One iteration of the loop of parseStaticFields().
staticFieldStep(field, value, st) ==
    LET size == getTypeSize(field.type) IN
    IF byteLength(value) < field.offset + size
    THEN [st EXCEPT !.trace =
            Append(@, TraceEntry("short", field.name, field.offset, size))]
    ELSE
    LET cond == IF field.condition.present
                THEN checkCondition(field.condition, value, field.offset,
                                    field.type)
                ELSE "true"
    IN
    IF cond = "raise"
    THEN [st EXCEPT !.raised = TRUE,
                    !.trace = Append(@, TraceEntry("raise", field.name,
                                                   field.offset, size))]
    ELSE IF cond = "false"
    THEN [st EXCEPT !.trace =
            Append(@, TraceEntry("condition", field.name, field.offset, size))]
    ELSE
    LET rawValue == readValue(value, field.offset, field.type, field.endian)
        stored   == ScaleAndRound(rawValue, field.divisor, field.multiplier)
    IN  [st EXCEPT
            !.data = IF startsWithUnderscore(field.name) THEN @
                     ELSE Store(@, field.name, stored),
            !.trace = Append(@, TraceEntry("read", field.name, field.offset,
                                           size))]

RECURSIVE staticLoop(_, _, _)
staticLoop(fields, value, st) ==
    IF fields = <<>> \/ st.raised THEN st
    ELSE staticLoop(Tail(fields), value, staticFieldStep(Head(fields), value, st))

parseStaticFields(fields, value) ==
    staticLoop(fields, value,
        [data |-> EmptyRecord, offset |-> 0, raised |-> FALSE, trace |-> <<>>])

\* The loop iteration with fixed offsets: a field marked absent by its flag
\* still advances the cursor by its width.
dynamicFieldStepFixedOffsets(field, flags, value, st) ==
    LET flagSet   == BitSet(flags, field.flagBit)
        isPresent == IF field.flagInverted THEN ~flagSet ELSE flagSet
        size      == getTypeSize(field.type)
        offset    == st.offset
    IN
    IF field.linkedToPrevious
    THEN IF byteLength(value) < offset + size
         THEN [st EXCEPT !.trace =
                 Append(@, TraceEntry("linkedShort", field.name, offset, size))]
         ELSE [st EXCEPT !.offset = offset + size,
                         !.trace =
                 Append(@, TraceEntry("linked", field.name, offset, size))]
    ELSE IF ~isPresent
    THEN [st EXCEPT !.offset = offset + size,
                    !.trace =
            Append(@, TraceEntry("absent", field.name, offset, size))]
    ELSE IF byteLength(value) < offset + size
    THEN [st EXCEPT !.trace =
            Append(@, TraceEntry("short", field.name, offset, size))]
    ELSE
    LET rawValue == readValue(value, offset, field.type, "little")
        stored   == ScaleAndRound(rawValue, field.divisor, field.multiplier)
    IN  [st EXCEPT
            !.offset = offset + size,
            !.data = IF field.skip \/ startsWithUnderscore(field.name) THEN @
                     ELSE Store(@, field.name, stored),
            !.trace = Append(@, TraceEntry(IF field.skip THEN "skip" ELSE "read",
                                           field.name, offset, size))]

\* One iteration of the loop of parseDynamicFields().
dynamicFieldStep(field, flags, value, st) ==
    LET flagSet   == BitSet(flags, field.flagBit)
        isPresent == IF field.flagInverted THEN ~flagSet ELSE flagSet
        size      == getTypeSize(field.type)
        offset    == st.offset
    IN
    IF field.linkedToPrevious
    THEN IF byteLength(value) < offset + size
         THEN [st EXCEPT !.trace =
                 Append(@, TraceEntry("linkedShort", field.name, offset, size))]
         ELSE [st EXCEPT !.offset = offset + size,
                         !.trace =
                 Append(@, TraceEntry("linked", field.name, offset, size))]
    ELSE IF ~isPresent
    THEN [st EXCEPT !.trace =
            Append(@, TraceEntry("absent", field.name, offset, size))]
    ELSE IF byteLength(value) < offset + size
    THEN [st EXCEPT !.trace =
            Append(@, TraceEntry("short", field.name, offset, size))]
    ELSE
    LET rawValue == readValue(value, offset, field.type, "little")
        stored   == ScaleAndRound(rawValue, field.divisor, field.multiplier)
    IN  [st EXCEPT
            !.offset = offset + size,
            !.data = IF field.skip \/ startsWithUnderscore(field.name) THEN @
                     ELSE Store(@, field.name, stored),
            !.trace = Append(@, TraceEntry(IF field.skip THEN "skip" ELSE "read",
                                           field.name, offset, size))]

RECURSIVE dynamicLoop(_, _, _, _)
dynamicLoop(fields, flags, value, st) ==
    IF fields = <<>> THEN st
    ELSE dynamicLoop(Tail(fields), flags, value,
                     dynamicFieldStep(Head(fields), flags, value, st))

\* const flagOffset = spec.flagOffset || 0; const flagSize = spec.flagSize || 2
specFlagOffset(spec) == spec.flagOffset
specFlagSize(spec) == IF spec.flagSize = 0 THEN 2 ELSE spec.flagSize

parseDynamicFields(spec, value) ==
    LET flagOffset == specFlagOffset(spec)
        flagSize   == specFlagSize(spec)
        st0 == [data |-> EmptyRecord, offset |-> flagOffset + flagSize,
                raised |-> FALSE, trace |-> <<>>]
    IN
    \* value.getUint8 / value.getUint16 on the flags: not guarded
    IF flagSize \in {1, 2} /\ byteLength(value) < flagOffset + flagSize
    THEN [st0 EXCEPT !.raised = TRUE]
    ELSE
    LET flags == IF flagSize = 1 THEN getUint8(value, flagOffset)
                 ELSE IF flagSize = 2 THEN getUint16(value, flagOffset, TRUE)
                 ELSE 0
    IN  dynamicLoop(spec.dynamicFields, flags, value, st0)

\* Marker for the JavaScript number NaN.
NaN == "NaN"

\* Number.isNaN(v): NaN is a number that is neither undefined nor null, and
\* every arithmetic operation with a NaN operand yields NaN.
IsNaN(v) == ToString(v) = ToString(NaN)

HasNaN(values) == \E i \in 1..Len(values) : IsNaN(values[i])

\* The loop iteration with a missing operand defaulted to 0.
computedFieldStepZeroDefault(field, data) ==
    LET ops == field.operands
        n   == Len(ops)
        values == [i \in 1..n |->
                     IF ops[i] \in DOMAIN data THEN data[ops[i]] ELSE 0]
    IN
    CASE field.operation = "multiply" ->
            LET fnum == IF field.factorNum = 0 THEN 1 ELSE field.factorNum
                fden == IF field.factorNum = 0 THEN 1 ELSE field.factorDen
            IN  Store(data, field.name,
                      IF HasNaN(values) THEN NaN
                      ELSE IF n = 0 THEN RoundDiv(100 * fnum, fden)
                      ELSE RoundDiv(SeqProduct(values) * fnum,
                                    (100^(n - 1)) * fden))
      [] field.operation = "divide" ->
            IF n < 2 \/ IsNaN(values[2]) THEN Store(data, field.name, NaN)
            ELSE IF values[2] = 0 THEN data
            ELSE Store(data, field.name,
                       IF IsNaN(values[1]) THEN NaN
                       ELSE RoundDiv(100 * values[1], values[2]))
      [] field.operation = "sum" ->
            Store(data, field.name,
                  IF HasNaN(values) THEN NaN ELSE SeqSum(values))
      [] OTHER -> data

\* case 'multiply': the product of the operands, times the factor if given,
\* and Math.round(result * 100), in doubles.
DblTimesFactor(product, factorNum, factorDen) ==
    IF factorNum # 0
    THEN DblMul(product, DblDiv(DblOfInt(factorNum), DblOfInt(factorDen)))
    ELSE product

multiplyDbl(values, factorNum, factorDen) ==
    MathRound(DblMul(DblTimesFactor(DblProduct(values, DblOfInt(1)),
                                    factorNum, factorDen),
                     DblOfInt(100)))

\* case 'divide': values[0] / values[1] and Math.round(result * 100), in
\* doubles.
divideDbl(values) ==
    MathRound(DblMul(DblDiv(DblOfStored(values[1]), DblOfStored(values[2])),
                     DblOfInt(100)))

\* One iteration of the loop of applyComputedFields().  Operand values are
\* hundredths; the result is Math.round(result * 100).  As in ScaleAndRound
\* the roundings of the doubles decide only a result that lies exactly
\* halfway between two hundredths.
computedFieldStep(field, data) ==
    LET ops == field.operands
        n   == Len(ops)
    IN
    IF \E i \in 1..n : ops[i] \notin DOMAIN data THEN data
    ELSE
    LET values == [i \in 1..n |-> data[ops[i]]] IN
    CASE field.operation = "multiply" ->
            LET fnum == IF field.factorNum = 0 THEN 1 ELSE field.factorNum
                fden == IF field.factorNum = 0 THEN 1 ELSE field.factorDen
                num  == IF n = 0 THEN 100 * fnum ELSE SeqProduct(values) * fnum
                den  == IF n = 0 THEN fden ELSE (100^(n - 1)) * fden
            IN  Store(data, field.name,
                      IF HasNaN(values) THEN NaN
                      ELSE IF HalfWay(num, den)
                      THEN multiplyDbl(values, field.factorNum, field.factorDen)
                      ELSE RoundDiv(num, den))
      [] field.operation = "divide" ->
            \* values[1] is undefined with fewer than two operands, and
            \* neither undefined nor NaN is === 0
            IF n < 2 \/ IsNaN(values[2]) THEN Store(data, field.name, NaN)
            ELSE IF values[2] = 0 THEN data
            ELSE Store(data, field.name,
                       IF IsNaN(values[1]) THEN NaN
                       ELSE IF HalfWay(100 * values[1], values[2])
                       THEN divideDbl(values)
                       ELSE RoundDiv(100 * values[1], values[2]))
      [] field.operation = "sum" ->
            Store(data, field.name,
                  IF HasNaN(values) THEN NaN ELSE SeqSum(values))
      [] OTHER -> data

RECURSIVE applyComputedFields(_, _)
applyComputedFields(computed, data) ==
    IF computed = <<>> THEN data
    ELSE applyComputedFields(Tail(computed),
                             computedFieldStep(Head(computed), data))

Outcome(raised, data, trace) ==
    [raised |-> raised, data |-> data, trace |-> trace]

parseWithSpec(spec, value) ==
    IF spec.minLength # 0 /\ byteLength(value) < spec.minLength
    THEN Outcome(FALSE, EmptyRecord, <<>>)
    ELSE IF ~validate(spec.validation, value)
    THEN Outcome(FALSE, EmptyRecord, <<>>)
    ELSE
    LET st == IF spec.mode = "dynamic"
              THEN parseDynamicFields(spec, value)
              ELSE parseStaticFields(spec.fields, value)
    IN
    IF st.raised THEN Outcome(TRUE, EmptyRecord, st.trace)
    ELSE Outcome(FALSE,
                 Store(applyComputedFields(spec.computed, st.data),
                       "sourceType", spec.id),
                 st.trace)

\* parse() reading the Map it is given: specByCharacteristic.get(key),
\* {} when there is none, parseWithSpec otherwise.
parseWithRegistry(map, characteristicUuid, rawValue) ==
    LET normalizedUuid == normalizeUuid(characteristicUuid) IN
    IF normalizedUuid \notin DOMAIN map
    THEN Outcome(FALSE, EmptyRecord, <<>>)
    ELSE parseWithSpec(map[normalizedUuid], rawValue)

parse(characteristicUuid, rawValue) ==
    parseWithRegistry(specByCharacteristic, characteristicUuid, rawValue)

----------------------------------------------------------------------------
(* The hard-coded Heart Rate Measurement decoders.  The heart rate is the  *)
(* number the code returns (beats per minute, no scaling).                 *)

\* What a decoder call did: which decoder, whether a DataView read outside
\* the view raised a RangeError, and the heart rate returned.
HeartRateOutcome(by, raised, heartRate) ==
    [by |-> by, raised |-> raised, heartRate |-> heartRate]

NotParsed == HeartRateOutcome("none", FALSE, 0)

\* The heart-rate read that ignores the format bit and takes one byte.
HeartRateValueUint8Only(value) ==
    IF byteLength(value) < 2
    THEN [raised |-> TRUE, heartRate |-> 0]
    ELSE [raised |-> FALSE, heartRate |-> getUint8(value, 1)]

\* flags = value.getUint8(0); flags & 0x01 ? value.getUint16(1, true)
\*                                         : value.getUint8(1)
HeartRateValue(value) ==
    IF byteLength(value) < 1
    THEN [raised |-> TRUE, heartRate |-> 0]
    ELSE LET flags == getUint8(value, 0)
             is16Bit == BitSet(flags, 0)
         IN  IF byteLength(value) < (IF is16Bit THEN 3 ELSE 2)
             THEN [raised |-> TRUE, heartRate |-> 0]
             ELSE [raised |-> FALSE,
                   heartRate |-> IF is16Bit THEN getUint16(value, 1, TRUE)
                                 ELSE getUint8(value, 1)]

\* FitnessDataParser.parseHeartRateMeasurement: { heartRate, sourceType }
parseHeartRateMeasurement(value) ==
    LET v == HeartRateValue(value) IN
    HeartRateOutcome("parseHeartRateMeasurement", v.raised, v.heartRate)

\* data-parsers.ts parseHeartRateData: the heart rate as a number
parseHeartRateData(value) ==
    LET v == HeartRateValue(value) IN
    HeartRateOutcome("parseHeartRateData", v.raised, v.heartRate)

\* Bytes of Heart Rate Measurement payloads: flags 0x00 and 0x01, a flags
\* byte with further bits (0x16, 0x17), and the values 0x47 and 0x8C.
HeartRateByteVals == {0, 1, 22, 23, 71, 140}

MaxHeartRateLen == 3

HeartRatePayloads ==
    UNION {[1..n -> HeartRateByteVals] : n \in 0..MaxHeartRateLen}

----------------------------------------------------------------------------
(* FitnessDataParser.parseFtmsIndoorBikeData: the hard-coded FTMS Indoor   *)
(* Bike Data decoder.  speed, cadence, resistance, power, calories,        *)
(* heartRate and duration are held in hundredths; distance (km, three      *)
(* decimals in the code) is held in thousandths.                           *)

\* Outcome of a decode: the buffer given, whether a DataView read outside
\* the view raised a RangeError, and the record returned.
FtmsDecoded(buffer, raised, data) ==
    [decoded |-> TRUE, buffer |-> buffer, raised |-> raised, data |-> data]

NotDecoded ==
    [decoded |-> FALSE, buffer |-> <<>>, raised |-> FALSE, data |-> EmptyRecord]

\* Whether the flags declare the field of a bit: bit 0 declares
\* Instantaneous Speed when it is 0.
ftmsPresent(flags, bit) ==
    IF bit = 0 THEN ~BitSet(flags, 0) ELSE BitSet(flags, bit)

\* Bytes the decoder reads at the offset for the field of a bit (0 for a
\* field it skips).
ftmsReadSize(bit) ==
    CASE bit \in {0, 2, 5, 6, 8, 11} -> 2
      [] bit = 4 -> 3
      [] bit = 9 -> 1
      [] OTHER -> 0

\* The offset advanced by the total energy alone, not by the three energy
\* fields.
ftmsAdvanceEnergyTotalOnly(bit) ==
    CASE bit \in {0, 1, 2, 3, 5, 6, 7, 8} -> 2
      [] bit = 4 -> 3
      [] bit \in {9, 10} -> 1
      [] OTHER -> 0

\* Bytes by which the decoder advances the offset after the field of a
\* bit (the last field, Elapsed Time, advances nothing).
ftmsAdvance(bit) ==
    CASE bit \in {0, 1, 2, 3, 5, 6, 7} -> 2
      [] bit = 4 -> 3
      [] bit = 8 -> 5
      [] bit \in {9, 10} -> 1
      [] OTHER -> 0

\* The member the field of a bit is stored in, with its value.
ftmsStore(bit, value, offset) ==
    CASE bit = 0 -> "speed" :> getUint16(value, offset, TRUE)
      [] bit = 2 -> "cadence" :> 50 * getUint16(value, offset, TRUE)
      [] bit = 4 -> "distance" :> (getUint8(value, offset)
                                   + 256 * getUint8(value, offset + 1)
                                   + 65536 * getUint8(value, offset + 2))
      [] bit = 5 -> "resistance"
                      :> 10 * ToSigned(getUint16(value, offset, TRUE), 16)
      [] bit = 6 -> "power" :> 100 * ToSigned(getUint16(value, offset, TRUE), 16)
      [] bit = 8 -> "calories" :> 100 * getUint16(value, offset, TRUE)
      [] bit = 9 -> "heartRate" :> 100 * getUint8(value, offset)
      [] bit = 11 -> "duration" :> 100 * getUint16(value, offset, TRUE)
      [] OTHER -> EmptyRecord

\* One `if (flags & ...)` block of the decoder.
ftmsFieldStep(bit, flags, value, st) ==
    IF st.raised \/ ~ftmsPresent(flags, bit) THEN st
    ELSE IF ftmsReadSize(bit) > 0
            /\ st.offset + ftmsReadSize(bit) > byteLength(value)
    THEN [st EXCEPT !.raised = TRUE]
    ELSE [st EXCEPT !.offset = @ + ftmsAdvance(bit),
                    !.data = ftmsStore(bit, value, st.offset) @@ @]

RECURSIVE ftmsFieldLoop(_, _, _, _)
ftmsFieldLoop(bit, flags, value, st) ==
    IF bit > 11 THEN st
    ELSE ftmsFieldLoop(bit + 1, flags, value,
                       ftmsFieldStep(bit, flags, value, st))

parseFtmsIndoorBikeData(value) ==
    IF byteLength(value) < 2 THEN FtmsDecoded(value, TRUE, EmptyRecord)
    ELSE LET flags == getUint16(value, 0, TRUE)
             st == ftmsFieldLoop(0, flags, value,
                                 [offset |-> 2, raised |-> FALSE,
                                  data |-> "sourceType" :> "ftms"])
         IN  IF st.raised THEN FtmsDecoded(value, TRUE, EmptyRecord)
             ELSE FtmsDecoded(value, FALSE, st.data)

----------------------------------------------------------------------------
(* Renderer: merged snapshot and broadcast tick (index.ts).                *)

Null == [isNull |-> TRUE, fields |-> EmptyRecord]

\* The snapshot replaced by the newest record instead of merged with it.
replaceRecord(latest, data) == [isNull |-> FALSE, fields |-> data]

\* { ...latestFitnessData, ...data }: spreading null contributes no key.
mergeRecord(latest, data) ==
    [isNull |-> FALSE, fields |-> data @@ latest.fields]

\* The conversion with heartRate defaulted like power and cadence
\* (heartRate ?? 0).
convertToFtmsOutputHeartRateZero(data) ==
    LET f == data.fields IN
    [power |-> IF "power" \in DOMAIN f THEN f["power"] ELSE 0,
     cadence |-> IF "cadence" \in DOMAIN f THEN f["cadence"] ELSE 0,
     heartRate |-> IF "heartRate" \in DOMAIN f THEN f["heartRate"] ELSE 0]

\* convertToFtmsOutput(): power ?? 0, cadence ?? 0, heartRate as it is (the
\* key is left out when heartRate is undefined).
convertToFtmsOutput(data) ==
    LET f == data.fields
        base == [power |-> IF "power" \in DOMAIN f THEN f["power"] ELSE 0,
                 cadence |-> IF "cadence" \in DOMAIN f THEN f["cadence"] ELSE 0]
    IN  IF "heartRate" \in DOMAIN f
        THEN Store(base, "heartRate", f["heartRate"])
        ELSE base

\* Notifications the connected device delivers in the renderer model.
RendererInputs ==
    { <<NumUuid(10962), <<68, 0, 75, 84>>>>,
      <<NumUuid(10962), <<0, 0>>>>,
      <<NumUuid(10807), <<75, 68, 0>>>>,
      <<NumUuid(10807), <<75, 84, 0>>>>,
      <<NumUuid(10807), <<0, 0, 0>>>>,
      <<StrUuid(<<"0","x","2","A","6","3">>), <<75>>>>,
      <<StrUuid(<<"0","x","2","A","6","3">>), <<68, 84>>>>,
      <<NumUuid(6182), <<75>>>>,
      <<NumUuid(42), <<>>>> }

BroadcasterStates == {"stopped", "starting", "advertising", "connected", "error"}

\* The interval handle, the armed timers and the snapshot, as one record.
RendererTimers(handle, live, latest) ==
    [updateInterval |-> handle, liveIntervals |-> live,
     latestFitnessData |-> latest]

\* The interval stopped with the snapshot left as it is.
stopUpdateIntervalKeepingData(st) ==
    RendererTimers(FALSE,
                   IF st.updateInterval THEN st.liveIntervals - 1
                   ELSE st.liveIntervals,
                   st.latestFitnessData)

\* stopUpdateInterval(): clearInterval on the handle when one is held, then
\* latestFitnessData = null.
stopUpdateInterval(st) ==
    RendererTimers(FALSE,
                   IF st.updateInterval THEN st.liveIntervals - 1
                   ELSE st.liveIntervals,
                   Null)

\* An interval armed over the handle of the previous one, which keeps running.
startUpdateIntervalNoStop(st) ==
    RendererTimers(TRUE, st.liveIntervals + 1, st.latestFitnessData)

\* startUpdateInterval(): stopUpdateInterval(), then setInterval(..., 1000).
startUpdateInterval(st) ==
    LET stopped == stopUpdateInterval(st) IN
    RendererTimers(TRUE, stopped.liveIntervals + 1, stopped.latestFitnessData)

----------------------------------------------------------------------------
(* Windows GATT server: FitnessData, the encoder and the notify loop.      *)
(* Cadence is a double in the code and is held in hundredths here; the     *)
(* other members are ints.                                                 *)

FitnessData(power, cadence, heartRate, distance, calories, elapsedTime) ==
    [Power |-> power, Cadence |-> cadence, HeartRate |-> heartRate,
     Distance |-> distance, Calories |-> calories, ElapsedTime |-> elapsedTime]

\* new FitnessData()
DefaultFitnessData == FitnessData(0, 0, 0, 0, 0, 0)

\* Program.cs: new FitnessData { Power = input.Power ?? 0, ... } from one
\* JSON line; a member the line does not carry is null.
FitnessDataOfInput(input) ==
    LET get(k) == IF k \in DOMAIN input THEN input[k] ELSE 0 IN
    FitnessData(get("power"), get("cadence"), get("heartRate"),
                get("distance"), get("calories"), get("elapsedTime"))

\* BinaryWriter.Write of a 16-bit value: two bytes, little-endian.
WriteU16(x) == <<(x % 65536) % 256, (x % 65536) \div 256>>

\* (ushort)x for a double x, given in hundredths, in the unchecked context
\* the project is built in: x is rounded toward zero; when the result is
\* outside 0..65535 the language leaves the value unspecified, and the
\* runtimes yield the low 16 bits of the truncated value or the nearer end
\* of the range (0 for NaN-like failures of the conversion).
UShortOfDouble(x100) ==
    LET t == IF x100 >= 0 THEN x100 \div 100 ELSE -((-x100) \div 100) IN
    IF t \in 0..65535 THEN {t}
    ELSE {t % 65536, IF t < 0 THEN 0 ELSE 65535, 0}

\* FtmsDataBuilder.BuildIndoorBikeData; cadence is the value the cast
\* (ushort)(data.Cadence * 2) produced, one of UShortOfDouble(data.Cadence * 2)
BuildIndoorBikeData(data, cadence) ==
    LET flags    == 4 + 16 + 64 + 256 + 512 + 2048
        distance == data.Distance
    IN  WriteU16(flags)
        \o WriteU16(0)
        \o WriteU16(cadence)
        \o <<distance % 256, (distance \div 256) % 256,
             (distance \div 65536) % 256>>
        \o WriteU16(data.Power)
        \o WriteU16(data.Calories) \o WriteU16(0) \o <<0>>
        \o <<data.HeartRate % 256>>
        \o WriteU16(data.ElapsedTime)

\* UpdateData(): under _dataLock, the reference _currentData is replaced.
UpdateDataResult(current, data) == data

\* DataWriter.DetachBuffer(): the buffer returned holds the bytes written
\* to the writer since it was created or last detached, and the writer is
\* left with none.
DetachBuffer(writer) == [buffer |-> writer, writer |-> <<>>]

\* NotifyAsync outside its foreach loops.
NoNotifyLoop == [left |-> 0, writer |-> <<>>]

\* JSON lines the broadcaster process receives on stdin.
StdinInputs ==
    { [power |-> 150, cadence |-> 8500, heartRate |-> 120],
      [power |-> 200, cadence |-> 9050, heartRate |-> 130, distance |-> 70000,
       calories |-> 300, elapsedTime |-> 600],
      [power |-> -150, cadence |-> 0],
      [heartRate |-> 0, cadence |-> 8500],
      [power |-> 150, cadence |-> -100] }

----------------------------------------------------------------------------
(* FTMS control point: FtmsGattServer.cs and the bleno controlPointChar.   *)

\* FTMS Control Point op codes and result codes (FtmsGattServer.cs).
OpRequestControl == 0
OpReset == 1
OpSetTargetPower == 5
OpSetTargetResistance == 4
OpStartResume == 7
OpStopPause == 8
OpResponse == 128
ResultSuccess == 1
ResultNotSupported == 2

\* What a handler did for one write: whether it answered the write request,
\* and the indications it sent, one entry per NotifyValueAsync / callback.
ControlOutcome(responded, indications) ==
    [responded |-> responded, indications |-> indications]

NoControlOutcome == ControlOutcome(FALSE, <<>>)

\* A write request: which server got it, its bytes, its GattWriteOption and
\* whether GetRequestAsync() returned a request.
ControlWrite(server, bytes, withResponse, hasRequest) ==
    [server |-> server, bytes |-> bytes, withResponse |-> withResponse,
     hasRequest |-> hasRequest]

NoControlWrite == ControlWrite("none", <<>>, FALSE, FALSE)

\* A call of the async handler OnControlPointWriteRequested in progress:
\* at "request" it waits for GetRequestAsync(), at "notify" for the
\* NotifyValueAsync of SendControlPointResponse's foreach; at "done"
\* SendControlPointResponse has returned, from the end of its foreach or
\* from its catch, and the call is about to complete its deferral.  It
\* holds the request, whether Respond() was called, the list of subscribed
\* clients the foreach runs over with the value each is sent, and how many
\* NotifyValueAsync calls were made.
Handler(at, write, responded, indications, sent) ==
    [pc |-> at, write |-> write, responded |-> responded,
     indications |-> indications, sent |-> sent]

AwaitingRequest == Handler("request", NoControlWrite, FALSE, <<>>, 0)

\* FtmsDataBuilder.BuildControlPointResponse
BuildControlPointResponse(requestOpCode, resultCode) ==
    <<OpResponse, requestOpCode, resultCode>>

\* A handler that refuses the commands of a client that never requested
\* control.
HandleControlPointGated(opCode, value, granted) ==
    IF opCode = OpRequestControl
    THEN [result |-> ResultSuccess, controlGranted |-> TRUE]
    ELSE IF opCode = OpReset
    THEN [result |-> ResultSuccess, controlGranted |-> granted]
    ELSE IF opCode \in {OpStartResume, OpStopPause, OpSetTargetPower,
                        OpSetTargetResistance} /\ granted
    THEN [result |-> ResultSuccess, controlGranted |-> granted]
    ELSE [result |-> ResultNotSupported, controlGranted |-> granted]

\* FtmsGattServer.HandleControlPoint: the result code and the value of
\* _controlGranted after the call.  The parameter bytes are only logged.
HandleControlPoint(opCode, value, granted) ==
    IF opCode = OpRequestControl
    THEN [result |-> ResultSuccess, controlGranted |-> TRUE]
    ELSE IF opCode \in {OpReset, OpStartResume, OpStopPause, OpSetTargetPower,
                        OpSetTargetResistance}
    THEN [result |-> ResultSuccess, controlGranted |-> granted]
    ELSE [result |-> ResultNotSupported, controlGranted |-> granted]

\* FtmsGattServer.SendControlPointResponse: the clients its foreach calls
\* NotifyValueAsync for, in order, with the value each is sent.
SendControlPointResponse(requestOpCode, resultCode, clients) ==
    [i \in 1..clients |->
        [client |-> i,
         value |-> BuildControlPointResponse(requestOpCode, resultCode)]]

\* The bleno controlPointChar onWriteRequest: callback(RESULT_SUCCESS), then
\* the indication {0x80, opCode, 0x01} when _updateValueCallback is set.
blenoOnWriteRequest(data, updateCallback) ==
    IF Len(data) > 0
    THEN ControlOutcome(TRUE,
            IF updateCallback
            THEN << [client |-> 1, value |-> <<128, data[1], 1>>] >>
            ELSE <<>>)
    ELSE ControlOutcome(TRUE, <<>>)

\* Op codes and writes the clients send.
ControlOpCodes == {0, 1, 2, 3, 4, 5, 6, 7, 8, 17, 128, 255}

ControlWrites ==
    {<<>>} \cup {<<op>> : op \in ControlOpCodes}
           \cup {<<5, 200, 0>>, <<5, 200>>, <<4, 50>>, <<8, 2>>, <<8, 1, 9, 9>>,
                 <<3, 40, 0>>}

\* Write requests the C# Control Point is given: a request that
\* GetRequestAsync() returns as null (a GetRequestAsync() that throws ends
\* the call the same way, through the handler's catch and finally), one
\* with an empty value, and commands written with and without response.
ForwarderWrites ==
    { ControlWrite("forwarder", <<>>, FALSE, FALSE),
      ControlWrite("forwarder", <<>>, TRUE, TRUE),
      ControlWrite("forwarder", <<0>>, TRUE, TRUE),
      ControlWrite("forwarder", <<1>>, FALSE, TRUE),
      ControlWrite("forwarder", <<3, 40, 0>>, TRUE, TRUE),
      ControlWrite("forwarder", <<5, 200, 0>>, TRUE, TRUE),
      ControlWrite("forwarder", <<8, 2>>, FALSE, TRUE) }

----------------------------------------------------------------------------
(* Outbound encoders: IndoorBikeDataCharacteristic._buildIndoorBikeData    *)
(* and the Feature characteristic of main.ts, BuildFitnessMachineFeature   *)
(* of FtmsDataBuilder.cs.  An FtmsOutput record holds its numbers in       *)
(* hundredths, as the decoded records do.                                  *)

\* Quotient rounded toward zero (ToUint8 / ToUint32 of a fractional number).
TruncDiv(n, d) == IF n >= 0 THEN n \div d ELSE -((-n) \div d)

\* Outcome of a Buffer write or of an encoder: the bytes, or a RangeError.
Written(bytes) == [raised |-> FALSE, bytes |-> bytes]
OutOfRange == [raised |-> TRUE, bytes |-> <<>>]

\* The two bytes written most significant first.
writeUInt16BE(v100) ==
    IF v100 < 0 \/ v100 > 6553500 THEN OutOfRange
    ELSE LET v == TruncDiv(v100, 100) IN Written(<<v \div 256, v % 256>>)

\* Buffer.writeUInt16LE(value): ERR_OUT_OF_RANGE outside 0..65535, else the
\* integer part, low byte first.  The argument is in hundredths.
writeUInt16LE(v100) ==
    IF v100 < 0 \/ v100 > 6553500 THEN OutOfRange
    ELSE LET v == TruncDiv(v100, 100) IN Written(<<v % 256, v \div 256>>)

\* Buffer.writeInt16LE(value): ERR_OUT_OF_RANGE outside -32768..32767.
writeInt16LE(v100) ==
    IF v100 < -3276800 \/ v100 > 3276700 THEN OutOfRange
    ELSE LET v == TruncDiv(v100, 100) % 65536
         IN  Written(<<v % 256, v \div 256>>)

\* Buffer.writeUInt8(value): ERR_OUT_OF_RANGE outside 0..255.
writeUInt8(v100) ==
    IF v100 < 0 \/ v100 > 25500 THEN OutOfRange
    ELSE Written(<<TruncDiv(v100, 100)>>)

\* Buffer.writeUInt32LE of an in-range integer constant.
writeUInt32LE(v) ==
    <<v % 256, (v \div 256) % 256, (v \div 65536) % 256, v \div 16777216>>

\* data.key || 0: undefined, 0 and NaN are falsy, so each of them gives 0.
orZero(data, key) ==
    IF key \in DOMAIN data /\ ~IsNaN(data[key]) THEN data[key] ELSE 0

\* The writes of an encoder in order: the first RangeError ends the call.
RECURSIVE writeAll(_)
writeAll(ws) ==
    IF ws = <<>> THEN Written(<<>>)
    ELSE IF Head(ws).raised THEN OutOfRange
    ELSE LET rest == writeAll(Tail(ws))
         IN  IF rest.raised THEN OutOfRange
             ELSE Written(Head(ws).bytes \o rest.bytes)

\* The encoder with the Total Distance bit asserted and no distance written.
_buildIndoorBikeDataDistanceFlag(data) ==
    writeAll(<< writeUInt16LE(59600),
                writeUInt16LE(100 * orZero(data, "speed")),
                writeUInt16LE(100 * RoundDiv(2 * orZero(data, "cadence"), 100)),
                writeInt16LE(orZero(data, "power")),
                writeUInt8(orZero(data, "heartRate")) >>)

\* IndoorBikeDataCharacteristic._buildIndoorBikeData: flags 0x0244, then
\* Math.round(speed * 100), Math.round(cadence * 2), power, heartRate.
_buildIndoorBikeData(data) ==
    writeAll(<< writeUInt16LE(58000),
                writeUInt16LE(100 * orZero(data, "speed")),
                writeUInt16LE(100 * RoundDiv(2 * orZero(data, "cadence"), 100)),
                writeInt16LE(orZero(data, "power")),
                writeUInt8(orZero(data, "heartRate")) >>)

\* featureChar.onReadRequest of BlenoBroadcaster.setupServices
blenoFeatureRead == Written(writeUInt32LE(1) \o writeUInt32LE(0))

\* FtmsDataBuilder.BuildFitnessMachineFeature
BuildFitnessMachineFeature ==
    LET features == 2^1 + 2^2 + 2^9 + 2^10 + 2^12 + 2^14
        targetSettings == 0
    IN  writeUInt32LE(features) \o writeUInt32LE(targetSettings)

\* An FtmsOutput record; Absent marks a member the record does not carry.
Absent == -1

FtmsOutput(power, cadence, heartRate, speed) ==
    LET opt(key, v) == IF ~IsNaN(v) /\ v = Absent THEN EmptyRecord
                       ELSE (key :> v)
    IN
    opt("power", power) @@ opt("cadence", cadence)
        @@ opt("heartRate", heartRate) @@ opt("speed", speed)

\* Records the encoder is given: whole, fractional, negative, absent,
\* out-of-range and NaN members (convertToFtmsOutput hands a NaN member on
\* as it is: NaN ?? 0 is NaN).
FtmsOutputs ==
    LET powers == <<15000, 15050, -15050, 0, 4000000, NaN>>
        cadences == <<8500, 9025, 0, NaN>>
        heartRates == <<Absent, 12000, 30000, NaN>>
        speeds == <<Absent, 2840, 70000, NaN>>
    IN  [i \in (DOMAIN powers) \X (DOMAIN cadences)
                  \X (DOMAIN heartRates) \X (DOMAIN speeds) |->
            FtmsOutput(powers[i[1]], cadences[i[2]], heartRates[i[3]],
                       speeds[i[4]])]

\* FitnessData objects the C# encoder is given.
FitnessDatas ==
    { FitnessData(150, 8500, 120, 0, 0, 0),
      FitnessData(200, 9050, 130, 70000, 300, 600),
      FitnessData(-150, 0, 0, 16777215, 65535, 65535),
      FitnessData(0, 12775, 255, 1, 1, 1),
      FitnessData(150, -25, 120, 0, 0, 0),
      FitnessData(150, -100, 120, 0, 0, 0),
      FitnessData(150, 4000000, 120, 0, 0, 0) }

\* Outcome of the last encoder call: which one ran and what it returned.
Encoded(kind, out) == [kind |-> kind, raised |-> out.raised, buffer |-> out.bytes]

NotEncoded == Encoded("none", Written(<<>>))

----------------------------------------------------------------------------
(* BlenoBroadcaster and its IndoorBikeDataCharacteristic (main.ts).        *)

\* An IndoorBikeDataCharacteristic object: the number of callbacks in
\* _subscribers, whether _updateInterval holds a handle, the number of its
\* setInterval timers that are armed, and _currentData.
BikeChar(subscribers, handle, live, data) ==
    [subscribers |-> subscribers, updateInterval |-> handle,
     liveTimers |-> live, currentData |-> data]

\* new IndoorBikeDataCharacteristic(): _currentData = { power: 0, cadence: 0 }
NewBikeChar == BikeChar(0, FALSE, 0, FtmsOutput(0, 0, Absent, Absent))

\* _startUpdates(): _updateInterval = setInterval(..., 250)
_startUpdates(char) ==
    [char EXCEPT !.updateInterval = TRUE, !.liveTimers = @ + 1]

\* _stopUpdates(): clearInterval when a handle is held
_stopUpdates(char) ==
    IF char.updateInterval
    THEN [char EXCEPT !.updateInterval = FALSE, !.liveTimers = @ - 1]
    ELSE char

\* onSubscribe(): push the callback; the first subscriber starts the timer.
onSubscribe(char) ==
    LET pushed == [char EXCEPT !.subscribers = @ + 1] IN
    IF pushed.subscribers = 1 THEN _startUpdates(pushed) ELSE pushed

\* onUnsubscribe(): pop a callback; with none left the timer is stopped.
onUnsubscribe(char) ==
    LET popped == [char EXCEPT !.subscribers = IF @ > 0 THEN @ - 1 ELSE 0] IN
    IF popped.subscribers = 0 THEN _stopUpdates(popped) ELSE popped

NotDelivered == Written(<<>>)

\* Records the renderer sends to the broadcaster.
SendDataInputs ==
    << FtmsOutput(15000, 8500, 12000, Absent),
       FtmsOutput(20000, 9025, Absent, Absent),
       FtmsOutput(0, 0, 30000, Absent),
       FtmsOutput(NaN, 8500, NaN, Absent) >>

MaxStarts == 2
MaxSubscribers == 2

----------------------------------------------------------------------------
(* PythonBroadcaster.  The object and what it started, as one record:      *)
(*   process         this.process: 0 for null, else the number of the      *)
(*                   ChildProcess it refers to (1 for the first spawned)   *)
(*   state, error    this.status.state and this.status.error               *)
(*   restartAttempts this.restartAttempts                                  *)
(*   alive           per spawned child: TRUE until its 'exit' is delivered *)
(*   restartTimers   pending setTimeout(() => this.start(), 1000)          *)
(*   killTimers      pending 2 s timers of stop(), oldest first; each      *)
(*                   entry is the child that was running at that stop()    *)

maxRestartAttempts == 3

CrashedTooManyTimes == "Broadcaster crashed too many times"

NewPythonBroadcaster ==
    [process |-> 0, state |-> "stopped", error |-> "none",
     restartAttempts |-> 0, alive |-> <<>>, restartTimers |-> 0,
     killTimers |-> <<>>]

\* start(): nothing when a process is held; else status 'starting', spawn
\* (a throw is caught: status 'error'), listeners, restartAttempts = 0.
start(b, spawnThrows) ==
    IF b.process # 0 THEN b
    ELSE IF spawnThrows
    THEN [b EXCEPT !.state = "error", !.error = "spawn failed"]
    ELSE [b EXCEPT !.state = "starting", !.error = "none",
                   !.process = Len(b.alive) + 1,
                   !.alive = Append(@, TRUE),
                   !.restartAttempts = 0]

\* handleOutput() on one line with a "status" member.
handleOutput(b, status) ==
    CASE status = "advertising" ->
            [b EXCEPT !.state = "advertising", !.error = "none"]
      [] status = "connected" ->
            [b EXCEPT !.state = "connected", !.error = "none"]
      [] status = "stopped" ->
            [b EXCEPT !.state = "stopped", !.error = "none"]
      [] OTHER -> b

\* handleProcessExit(): drop the reference; unless the status is stopped
\* or error, schedule a restart while the counter is below the maximum,
\* else status 'error'.
handleProcessExit(b) ==
    LET b1 == [b EXCEPT !.process = 0] IN
    IF b1.state # "stopped" /\ b1.state # "error"
    THEN IF b1.restartAttempts < maxRestartAttempts
         THEN [b1 EXCEPT !.restartAttempts = @ + 1, !.restartTimers = @ + 1]
         ELSE [b1 EXCEPT !.state = "error", !.error = CrashedTooManyTimes]
    ELSE b1

\* stop(): nothing when no process is held; else status 'stopped', the
\* stop command on stdin and the 2 s kill timer; when the write throws,
\* kill at once and drop the reference.
stop(b, writeThrows) ==
    IF b.process = 0 THEN b
    ELSE LET b1 == [b EXCEPT !.state = "stopped", !.error = "none"] IN
         IF writeThrows THEN [b1 EXCEPT !.process = 0]
         ELSE [b1 EXCEPT !.killTimers = Append(@, b.process)]

\* The callback of the 2 s timer of stop(): kill whatever this.process
\* refers to now, and drop the reference.
killTimerCallback(b) ==
    [b EXCEPT !.process = 0, !.killTimers = Tail(@)]

\* Status values of the lines the child writes ("ready" is none the
\* switch knows).
OutputStatuses == {"advertising", "connected", "stopped", "ready"}

MaxSpawns == 5
MaxTimers == 1

----------------------------------------------------------------------------
(* Initial state.                                                          *)

NotRun == [raised |-> FALSE, data |-> EmptyRecord, trace |-> <<>>]

InitParserVars ==
    /\ result = NotRun
    /\ pc = "ready"

InitRendererVars ==
    /\ latestFitnessData = Null
    /\ updateInterval = FALSE
    /\ isBroadcasting = FALSE
    /\ lastSent = EmptyRecord
    /\ liveIntervals = 0

InitControlPoint ==
    /\ controlGranted = FALSE
    /\ cpClients = 0
    /\ blenoCpCallback = FALSE
    /\ cpHandlers = EmptyBag
    /\ cpWrite = NoControlWrite
    /\ cpOut = NoControlOutcome

\* The BluetoothBroadcaster constructor takes one of two branches: 'bleno'
\* when shouldUseBleno() and BlenoBroadcaster.isAvailable(), else 'python'.
InitControlVars == InitControlPoint /\ backendType \in {"bleno", "python"}

InitEncoderVars ==
    /\ encRecord = FtmsOutput(0, 0, Absent, Absent)
    /\ encFitness = DefaultFitnessData
    /\ encOut = NotEncoded

InitBlenoVars ==
    /\ blenoStatus = "stopped"
    /\ pendingStart = FALSE
    /\ blenoPoweredOn = FALSE
    /\ advertising = "off"
    /\ servicesPending = FALSE
    /\ clientConnected = FALSE
    /\ bikeChars = <<>>
    /\ bikeDelivered = NotDelivered
    /\ stoppedSince = FALSE

\* The registry as the module initialisation leaves it for deviceSpecs.
InitRegistryVars ==
    /\ specFiles = [i \in 1..Len(deviceSpecs) |-> JsonSpec(deviceSpecs[i], {})]
    /\ registry = specByCharacteristic
    /\ loadOutcome = LoadOutcome("loaded", "none")
    /\ parseLog = <<>>

InitLegacyVars == hrParsed = NotParsed

InitPythonVars ==
    /\ python = NewPythonBroadcaster
    /\ pyStoppedSince = FALSE
    /\ pyRestartsInRow = 0
    /\ pyKilled = {}

InitDecoderVars == ftmsDecoded = NotDecoded

InitCharVars ==
    /\ bikeChar = NewBikeChar
    /\ bikeCallbacks = <<>>
    /\ bikeSubscribed = {}
    /\ bikeInvoked = {}

InitGattVars ==
    /\ currentData = DefaultFitnessData
    /\ notifyPc = "idle"
    /\ notifyData = DefaultFitnessData
    /\ notifyLoop = NoNotifyLoop
    /\ subscribed = 0
    /\ hrSubscribed = 0
    /\ notified = <<>>
    /\ hrNotified = <<>>
    /\ written = <<DefaultFitnessData>>

----------------------------------------------------------------------------
(* The parser as a state machine: one call of parse() on a drawn input.    *)

InitParser ==
    /\ inUuid \in Uuids
    /\ inPayload \in Payloads
    /\ InitParserVars /\ InitRendererVars /\ InitGattVars
    /\ InitControlVars /\ InitEncoderVars /\ InitBlenoVars
    /\ InitRegistryVars /\ InitLegacyVars /\ InitPythonVars
    /\ InitCharVars /\ InitDecoderVars

Parse ==
    /\ pc = "ready"
    /\ result' = parse(inUuid, inPayload)
    /\ pc' = "done"
    /\ UNCHANGED <<inUuid, inPayload>>
    /\ UNCHANGED <<rendererVars, gattVars, controlVars, encoderVars, blenoVars,
                   registryVars, legacyVars, pythonVars, charVars,
                   decoderVars>>

NextParser == Parse

SpecParser == InitParser /\ [][NextParser]_vars

\* The spec the drawn characteristic maps to, if any.
\* this.specByCharacteristic.get(normalizeUuid(uuid)): the spec found, in
\* a sequence that is empty when the map has none.
LookUp(uuid) ==
    LET key == normalizeUuid(uuid) IN
    IF key \in DOMAIN specByCharacteristic
    THEN <<specByCharacteristic[key]>> ELSE <<>>

\* The lookups of the characteristics of Uuids, computed once.
LookUpOfUuids == [u \in Uuids |-> LookUp(u)]

Found == IF inUuid \in Uuids THEN LookUpOfUuids[inUuid] ELSE LookUp(inUuid)

HasSpec == Found # <<>>
TheSpec == Found[1]

----------------------------------------------------------------------------
(* The renderer as a state machine.                                        *)

InitRenderer ==
    /\ inUuid = NumUuid(6182)
    /\ inPayload = <<>>
    /\ InitParserVars /\ InitRendererVars /\ InitGattVars
    /\ InitControlVars /\ InitEncoderVars /\ InitBlenoVars
    /\ InitRegistryVars /\ InitLegacyVars /\ InitPythonVars
    /\ InitCharVars /\ InitDecoderVars

TimerState == RendererTimers(updateInterval, liveIntervals, latestFitnessData)

\* bluetoothService 'characteristicvaluechanged' listener -> emitRawData ->
\* FitnessDataReader callback: deviceSpecParser.parse, emitFitnessData ->
\* index.ts onFitnessData callback (merge).  A RangeError thrown by parse
\* leaves the listener before the merge.
OnRawData(uuid, payload) ==
    LET fitnessData == parse(uuid, payload) IN
    /\ inUuid' = uuid
    /\ inPayload' = payload
    /\ result' = fitnessData
    /\ pc' = "done"
    /\ latestFitnessData' =
            IF fitnessData.raised THEN latestFitnessData
            ELSE mergeRecord(latestFitnessData, fitnessData.data)
    /\ UNCHANGED <<updateInterval, isBroadcasting, lastSent, liveIntervals>>
    /\ UNCHANGED <<gattVars, controlVars, encoderVars, blenoVars,
                   registryVars, legacyVars, pythonVars, charVars,
                   decoderVars>>

\* index.ts onConnectionChange callback: startUpdateInterval() (which
\* first calls stopUpdateInterval()) when connected with a device name,
\* stopUpdateInterval() otherwise.
OnConnectionChange(connected, hasDeviceName) ==
    LET st == IF connected /\ hasDeviceName
              THEN startUpdateInterval(TimerState)
              ELSE stopUpdateInterval(TimerState)
    IN  /\ latestFitnessData' = st.latestFitnessData
        /\ updateInterval' = st.updateInterval
        /\ liveIntervals' = st.liveIntervals
        /\ UNCHANGED <<isBroadcasting, lastSent>>
    /\ UNCHANGED <<parserVars, gattVars, controlVars, encoderVars, blenoVars,
                   registryVars, legacyVars, pythonVars, charVars,
                   decoderVars>>

\* The setInterval callback of startUpdateInterval().
Tick ==
    /\ liveIntervals > 0
    /\ lastSent' =
            IF ~latestFitnessData.isNull /\ isBroadcasting
            THEN convertToFtmsOutput(latestFitnessData)
            ELSE lastSent
    /\ UNCHANGED <<latestFitnessData, updateInterval, isBroadcasting,
                   liveIntervals>>
    /\ UNCHANGED <<parserVars, gattVars, controlVars, encoderVars, blenoVars,
                   registryVars, legacyVars, pythonVars, charVars,
                   decoderVars>>

\* onBroadcasterStatus -> statusIndicator.setBroadcasterStatus(status)
OnBroadcasterStatus(state) ==
    /\ isBroadcasting' = (state \in {"advertising", "connected"})
    /\ UNCHANGED <<latestFitnessData, updateInterval, lastSent, liveIntervals>>
    /\ UNCHANGED <<parserVars, gattVars, controlVars, encoderVars, blenoVars,
                   registryVars, legacyVars, pythonVars, charVars,
                   decoderVars>>

RawDataStep == \E in \in RendererInputs : OnRawData(in[1], in[2])

ConnectionChangeStep ==
    \E connected \in BOOLEAN, hasDeviceName \in BOOLEAN :
        OnConnectionChange(connected, hasDeviceName)

BroadcasterStatusStep == \E state \in BroadcasterStates : OnBroadcasterStatus(state)

NextRenderer ==
    \/ RawDataStep
    \/ ConnectionChangeStep
    \/ Tick
    \/ BroadcasterStatusStep

SpecRenderer == InitRenderer /\ [][NextRenderer]_vars

----------------------------------------------------------------------------
(* The GATT server as a state machine: the stdin reader task calls         *)
(* UpdateData while the notify task loops over NotifyAsync.                *)

MaxWrites == 3

\* Clients subscribed to one characteristic at a time.
MaxNotifyClients == 2

InitGatt ==
    /\ inUuid = NumUuid(6182)
    /\ inPayload = <<>>
    /\ InitParserVars /\ InitRendererVars /\ InitGattVars
    \* the branch of the constructor that creates a PythonBroadcaster
    /\ InitControlVars /\ backendType = "python"
    /\ InitEncoderVars /\ InitBlenoVars
    /\ InitRegistryVars /\ InitLegacyVars /\ InitPythonVars
    /\ InitCharVars /\ InitDecoderVars

\* Program.cs stdin loop: one JSON line, server.UpdateData(new FitnessData{..})
StdinLine(input) ==
    LET data == FitnessDataOfInput(input) IN
    /\ Len(written) <= MaxWrites
    /\ currentData' = UpdateDataResult(currentData, data)
    /\ written' = Append(written, data)
    /\ UNCHANGED <<notifyPc, notifyData, notifyLoop, subscribed, hrSubscribed,
                   notified, hrNotified>>
    /\ UNCHANGED <<parserVars, rendererVars, controlVars, encoderVars, blenoVars,
                   registryVars, legacyVars, pythonVars, charVars,
                   decoderVars>>

\* NotifyAsync: lock (_dataLock) { data = _currentData; }
NotifyRead ==
    /\ notifyPc = "idle"
    /\ notifyData' = currentData
    /\ notifyPc' = "bike"
    /\ notified' = <<>>
    /\ hrNotified' = <<>>
    /\ UNCHANGED <<currentData, notifyLoop, subscribed, hrSubscribed, written>>
    /\ UNCHANGED <<parserVars, rendererVars, controlVars, encoderVars, blenoVars,
                   registryVars, legacyVars, pythonVars, charVars,
                   decoderVars>>

\* NotifyAsync: with a client subscribed to Indoor Bike Data, the value is
\* built and written to a DataWriter, and the foreach starts on the
\* clients subscribed now.
NotifyBike ==
    /\ notifyPc = "bike"
    /\ IF subscribed > 0
       THEN \E cadence \in UShortOfDouble(notifyData.Cadence * 2) :
                /\ notifyLoop' =
                      [left |-> subscribed,
                       writer |-> BuildIndoorBikeData(notifyData, cadence)]
                /\ notifyPc' = "bikeLoop"
       ELSE /\ notifyLoop' = NoNotifyLoop
            /\ notifyPc' = "hr"
    /\ UNCHANGED <<currentData, notifyData, subscribed, hrSubscribed, notified,
                   hrNotified, written>>
    /\ UNCHANGED <<parserVars, rendererVars, controlVars, encoderVars, blenoVars,
                   registryVars, legacyVars, pythonVars, charVars,
                   decoderVars>>

\* One iteration of the foreach over the Indoor Bike Data clients:
\* await NotifyValueAsync(writer.DetachBuffer(), client).  An exception
\* ends NotifyAsync in its catch block.
NotifyBikeClient(throws) ==
    /\ notifyPc = "bikeLoop"
    /\ IF throws
       THEN /\ notifyPc' = "idle"
            /\ notifyLoop' = NoNotifyLoop
            /\ UNCHANGED notified
       ELSE /\ notified' = Append(notified, DetachBuffer(notifyLoop.writer).buffer)
            /\ notifyLoop' = [left |-> notifyLoop.left - 1,
                              writer |-> DetachBuffer(notifyLoop.writer).writer]
            /\ notifyPc' = IF notifyLoop.left = 1 THEN "hr" ELSE "bikeLoop"
    /\ UNCHANGED <<currentData, notifyData, subscribed, hrSubscribed,
                   hrNotified, written>>
    /\ UNCHANGED <<parserVars, rendererVars, controlVars, encoderVars, blenoVars,
                   registryVars, legacyVars, pythonVars, charVars,
                   decoderVars>>

\* NotifyAsync: with a client subscribed to Heart Rate Measurement and
\* data.HeartRate > 0, the value { 0x00, (byte)data.HeartRate } is written
\* to a DataWriter and the foreach starts; otherwise NotifyAsync is done,
\* and the loop of Program.cs waits 250 ms and calls it again.
NotifyHeartRate ==
    /\ notifyPc = "hr"
    /\ IF hrSubscribed > 0 /\ notifyData.HeartRate > 0
       THEN /\ notifyLoop' = [left |-> hrSubscribed,
                              writer |-> <<0, notifyData.HeartRate % 256>>]
            /\ notifyPc' = "hrLoop"
       ELSE /\ notifyLoop' = NoNotifyLoop
            /\ notifyPc' = "idle"
    /\ UNCHANGED <<currentData, notifyData, subscribed, hrSubscribed, notified,
                   hrNotified, written>>
    /\ UNCHANGED <<parserVars, rendererVars, controlVars, encoderVars, blenoVars,
                   registryVars, legacyVars, pythonVars, charVars,
                   decoderVars>>

\* One iteration of the foreach over the Heart Rate Measurement clients:
\* await NotifyValueAsync(hrWriter.DetachBuffer(), client).
NotifyHeartRateClient(throws) ==
    /\ notifyPc = "hrLoop"
    /\ IF throws
       THEN /\ notifyPc' = "idle"
            /\ notifyLoop' = NoNotifyLoop
            /\ UNCHANGED hrNotified
       ELSE /\ hrNotified' =
                  Append(hrNotified, DetachBuffer(notifyLoop.writer).buffer)
            /\ notifyLoop' = [left |-> notifyLoop.left - 1,
                              writer |-> DetachBuffer(notifyLoop.writer).writer]
            /\ notifyPc' = IF notifyLoop.left = 1 THEN "idle" ELSE "hrLoop"
    /\ UNCHANGED <<currentData, notifyData, subscribed, hrSubscribed, notified,
                   written>>
    /\ UNCHANGED <<parserVars, rendererVars, controlVars, encoderVars, blenoVars,
                   registryVars, legacyVars, pythonVars, charVars,
                   decoderVars>>

\* A client subscribes to or unsubscribes from the notifications of one of
\* the two characteristics.
SubscribedClientsChanged ==
    /\ \/ /\ subscribed' \in {subscribed - 1, subscribed + 1}
          /\ subscribed' \in 0..MaxNotifyClients
          /\ UNCHANGED hrSubscribed
       \/ /\ hrSubscribed' \in {hrSubscribed - 1, hrSubscribed + 1}
          /\ hrSubscribed' \in 0..MaxNotifyClients
          /\ UNCHANGED subscribed
    /\ UNCHANGED <<currentData, notifyPc, notifyData, notifyLoop, notified,
                   hrNotified, written>>
    /\ UNCHANGED <<parserVars, rendererVars, controlVars, encoderVars, blenoVars,
                   registryVars, legacyVars, pythonVars, charVars,
                   decoderVars>>

StdinStep == \E input \in StdinInputs : StdinLine(input)

NotifyBikeClientStep == \E throws \in BOOLEAN : NotifyBikeClient(throws)

NotifyHeartRateClientStep ==
    \E throws \in BOOLEAN : NotifyHeartRateClient(throws)

NextGatt ==
    \/ StdinStep
    \/ NotifyRead
    \/ NotifyBike
    \/ NotifyBikeClientStep
    \/ NotifyHeartRate
    \/ NotifyHeartRateClientStep
    \/ SubscribedClientsChanged

SpecGatt == InitGatt /\ [][NextGatt]_vars

----------------------------------------------------------------------------
(* The control points as a state machine: clients subscribe to and write   *)
(* the Control Point of the Windows GATT server and of the bleno server.   *)

MaxClients == 2

\* Calls of OnControlPointWriteRequested in progress at a time.
MaxHandlers == 2

InitControl ==
    /\ inUuid = NumUuid(6182)
    /\ inPayload = <<>>
    /\ InitParserVars /\ InitRendererVars /\ InitGattVars
    /\ InitControlVars
    /\ InitEncoderVars /\ InitBlenoVars
    /\ InitRegistryVars /\ InitLegacyVars /\ InitPythonVars
    /\ InitCharVars /\ InitDecoderVars

\* FtmsGattServer.OnControlPointWriteRequested, raised for a write: it takes
\* the deferral and waits for args.GetRequestAsync().
OnControlPointWriteRequested ==
    /\ backendType = "python"
    /\ BagCardinality(cpHandlers) < MaxHandlers
    /\ cpHandlers' = cpHandlers (+) SetToBag({AwaitingRequest})
    /\ UNCHANGED <<controlGranted, cpClients, blenoCpCallback, backendType,
                   cpWrite, cpOut>>
    /\ UNCHANGED <<parserVars, rendererVars, gattVars, encoderVars, blenoVars,
                   registryVars, legacyVars, pythonVars, charVars,
                   decoderVars>>

\* What the call becomes after GetRequestAsync() returned the request: with
\* a null request or an empty value it is done; otherwise Respond() for
\* WriteWithResponse and SendControlPointResponse, which is done at once
\* when no client is subscribed and else waits for its first
\* NotifyValueAsync.
HandleRequest(write, granted, clients) ==
    LET handled == HandleControlPoint(write.bytes[1], write.bytes, granted)
        indications == SendControlPointResponse(write.bytes[1], handled.result,
                                                clients)
    IN  IF ~(write.hasRequest /\ Len(write.bytes) > 0)
        THEN Handler("done", write, FALSE, <<>>, 0)
        ELSE IF Len(indications) = 0
        THEN Handler("done", write, write.withResponse, indications, 0)
        ELSE Handler("notify", write, write.withResponse, indications, 1)

\* OnControlPointWriteRequested after GetRequestAsync(): HandleControlPoint
\* on the op code, then HandleRequest on the clients subscribed now.
RequestReceived(write) ==
    /\ BagIn(AwaitingRequest, cpHandlers)
    /\ controlGranted' =
          IF write.hasRequest /\ Len(write.bytes) > 0
          THEN HandleControlPoint(write.bytes[1], write.bytes,
                                  controlGranted).controlGranted
          ELSE controlGranted
    /\ cpHandlers' = (cpHandlers (-) SetToBag({AwaitingRequest}))
                        (+) SetToBag({HandleRequest(write, controlGranted,
                                                    cpClients)})
    /\ UNCHANGED <<cpClients, blenoCpCallback, backendType, cpWrite, cpOut>>
    /\ UNCHANGED <<parserVars, rendererVars, gattVars, encoderVars, blenoVars,
                   registryVars, legacyVars, pythonVars, charVars,
                   decoderVars>>

\* SendControlPointResponse after a NotifyValueAsync that returned: the
\* foreach calls NotifyValueAsync for the next client of its list, or, the
\* list done, SendControlPointResponse returns.
NotifyValueCompleted(h) ==
    /\ BagIn(h, cpHandlers) /\ h.pc = "notify"
    /\ cpHandlers' = (cpHandlers (-) SetToBag({h}))
                        (+) SetToBag({IF h.sent < Len(h.indications)
                                      THEN [h EXCEPT !.sent = @ + 1]
                                      ELSE [h EXCEPT !.pc = "done"]})
    /\ UNCHANGED <<controlGranted, cpClients, blenoCpCallback, backendType,
                   cpWrite, cpOut>>
    /\ UNCHANGED <<parserVars, rendererVars, gattVars, encoderVars, blenoVars,
                   registryVars, legacyVars, pythonVars, charVars,
                   decoderVars>>

\* SendControlPointResponse after a NotifyValueAsync that threw: the try
\* block encloses the foreach, so the catch logs the failure and
\* SendControlPointResponse returns; NotifyValueAsync is called for none of
\* the clients that follow in the list.
NotifyValueFailed(h) ==
    /\ BagIn(h, cpHandlers) /\ h.pc = "notify"
    /\ cpHandlers' = (cpHandlers (-) SetToBag({h}))
                        (+) SetToBag({[h EXCEPT !.pc = "done"]})
    /\ UNCHANGED <<controlGranted, cpClients, blenoCpCallback, backendType,
                   cpWrite, cpOut>>
    /\ UNCHANGED <<parserVars, rendererVars, gattVars, encoderVars, blenoVars,
                   registryVars, legacyVars, pythonVars, charVars,
                   decoderVars>>

\* The handler's end: finally { deferral.Complete(); }
DeferralComplete(h) ==
    /\ BagIn(h, cpHandlers) /\ h.pc = "done"
    /\ cpHandlers' = cpHandlers (-) SetToBag({h})
    /\ UNCHANGED <<controlGranted, cpClients, blenoCpCallback, backendType,
                   cpWrite, cpOut>>
    /\ UNCHANGED <<parserVars, rendererVars, gattVars, encoderVars, blenoVars,
                   registryVars, legacyVars, pythonVars, charVars,
                   decoderVars>>

\* A client subscribes to or unsubscribes from the C# Control Point.
ControlPointClientsChanged ==
    /\ backendType = "python"
    /\ \E n \in 0..MaxClients :
          /\ n \in {cpClients - 1, cpClients + 1}
          /\ cpClients' = n
    /\ UNCHANGED <<controlGranted, blenoCpCallback, backendType, cpHandlers,
                   cpWrite, cpOut>>
    /\ UNCHANGED <<parserVars, rendererVars, gattVars, encoderVars, blenoVars,
                   registryVars, legacyVars, pythonVars, charVars,
                   decoderVars>>

\* controlPointChar.onWriteRequest of BlenoBroadcaster.setupServices
BlenoControlPointWrite(data) ==
    /\ backendType = "bleno"
    /\ cpWrite' = ControlWrite("bleno", data, TRUE, TRUE)
    /\ cpOut' = blenoOnWriteRequest(data, blenoCpCallback)
    /\ UNCHANGED <<controlGranted, cpClients, blenoCpCallback, backendType,
                   cpHandlers>>
    /\ UNCHANGED <<parserVars, rendererVars, gattVars, encoderVars, blenoVars,
                   registryVars, legacyVars, pythonVars, charVars,
                   decoderVars>>

\* controlPointChar.onSubscribe / onUnsubscribe
BlenoControlPointSubscribe ==
    /\ backendType = "bleno"
    /\ blenoCpCallback' = TRUE
    /\ blenoCpCallback' # blenoCpCallback
    /\ UNCHANGED <<controlGranted, cpClients, backendType, cpHandlers, cpWrite,
                   cpOut>>
    /\ UNCHANGED <<parserVars, rendererVars, gattVars, encoderVars, blenoVars,
                   registryVars, legacyVars, pythonVars, charVars,
                   decoderVars>>

BlenoControlPointUnsubscribe ==
    /\ backendType = "bleno"
    /\ blenoCpCallback' = FALSE
    /\ blenoCpCallback' # blenoCpCallback
    /\ UNCHANGED <<controlGranted, cpClients, backendType, cpHandlers, cpWrite,
                   cpOut>>
    /\ UNCHANGED <<parserVars, rendererVars, gattVars, encoderVars, blenoVars,
                   registryVars, legacyVars, pythonVars, charVars,
                   decoderVars>>

RequestReceivedStep == \E write \in ForwarderWrites : RequestReceived(write)

NotifyValueCompletedStep ==
    \E h \in BagToSet(cpHandlers) : NotifyValueCompleted(h)

NotifyValueFailedStep ==
    \E h \in BagToSet(cpHandlers) : NotifyValueFailed(h)

DeferralCompleteStep == \E h \in BagToSet(cpHandlers) : DeferralComplete(h)

BlenoWriteStep == \E data \in ControlWrites : BlenoControlPointWrite(data)

NextControl ==
    \/ OnControlPointWriteRequested
    \/ RequestReceivedStep
    \/ NotifyValueCompletedStep
    \/ NotifyValueFailedStep
    \/ DeferralCompleteStep
    \/ ControlPointClientsChanged
    \/ BlenoWriteStep
    \/ BlenoControlPointSubscribe
    \/ BlenoControlPointUnsubscribe

SpecControl == InitControl /\ [][NextControl]_vars

----------------------------------------------------------------------------
(* The encoders as a state machine: calls of the two Indoor Bike Data      *)
(* encoders and reads of the two Feature values on drawn records.          *)

InitEncoder ==
    /\ inUuid = NumUuid(6182)
    /\ inPayload = <<>>
    /\ InitParserVars /\ InitRendererVars /\ InitGattVars
    /\ InitControlVars /\ InitBlenoVars /\ InitRegistryVars
    /\ InitLegacyVars /\ InitPythonVars
    /\ InitCharVars /\ InitDecoderVars
    /\ \E i \in DOMAIN FtmsOutputs : encRecord = FtmsOutputs[i]
    /\ encFitness \in FitnessDatas
    /\ encOut = NotEncoded

\* IndoorBikeDataCharacteristic: this._buildIndoorBikeData(this._currentData)
EncodeBleno ==
    /\ encOut' = Encoded("bleno", _buildIndoorBikeData(encRecord))
    /\ UNCHANGED <<encRecord, encFitness>>
    /\ UNCHANGED <<parserVars, rendererVars, gattVars, controlVars, blenoVars,
                   registryVars, legacyVars, pythonVars, charVars,
                   decoderVars>>

\* FtmsGattServer.NotifyAsync: FtmsDataBuilder.BuildIndoorBikeData(data)
EncodeForwarder ==
    /\ \E cadence \in UShortOfDouble(encFitness.Cadence * 2) :
            encOut' = Encoded("forwarder",
                              Written(BuildIndoorBikeData(encFitness, cadence)))
    /\ UNCHANGED <<encRecord, encFitness>>
    /\ UNCHANGED <<parserVars, rendererVars, gattVars, controlVars, blenoVars,
                   registryVars, legacyVars, pythonVars, charVars,
                   decoderVars>>

\* A client reads the Fitness Machine Feature of the bleno server.
ReadFeatureBleno ==
    /\ encOut' = Encoded("blenoFeature", blenoFeatureRead)
    /\ UNCHANGED <<encRecord, encFitness>>
    /\ UNCHANGED <<parserVars, rendererVars, gattVars, controlVars, blenoVars,
                   registryVars, legacyVars, pythonVars, charVars,
                   decoderVars>>

\* The Fitness Machine Feature static value of the C# server.
ReadFeatureForwarder ==
    /\ encOut' = Encoded("forwarderFeature", Written(BuildFitnessMachineFeature))
    /\ UNCHANGED <<encRecord, encFitness>>
    /\ UNCHANGED <<parserVars, rendererVars, gattVars, controlVars, blenoVars,
                   registryVars, legacyVars, pythonVars, charVars,
                   decoderVars>>

NextEncoder ==
    \/ EncodeBleno
    \/ EncodeForwarder
    \/ ReadFeatureBleno
    \/ ReadFeatureForwarder

SpecEncoder == InitEncoder /\ [][NextEncoder]_vars

----------------------------------------------------------------------------
(* Round trip: a buffer an Indoor Bike Data encoder returned is given to   *)
(* parseFtmsIndoorBikeData.                                                *)

\* FitnessDataParser.parseByType, case 'ftms', on the last encoded buffer
DecodeIndoorBikeData ==
    /\ encOut.kind \in {"bleno", "forwarder"} /\ ~encOut.raised
    /\ ftmsDecoded' = parseFtmsIndoorBikeData(encOut.buffer)
    /\ UNCHANGED <<parserVars, rendererVars, gattVars, controlVars,
                   encoderVars, blenoVars, registryVars, legacyVars,
                   pythonVars, charVars>>

NextRoundTrip ==
    \/ EncodeBleno
    \/ EncodeForwarder
    \/ DecodeIndoorBikeData

SpecRoundTrip == InitEncoder /\ [][NextRoundTrip]_vars

----------------------------------------------------------------------------
(* The bleno broadcaster as a state machine: the calls of the main process *)
(* (start, stop, sendData), the bleno events and the 250 ms timers.        *)

InitBleno ==
    /\ inUuid = NumUuid(6182)
    /\ inPayload = <<>>
    /\ InitParserVars /\ InitRendererVars /\ InitGattVars
    \* the branch of the constructor that creates a BlenoBroadcaster
    /\ InitControlVars /\ backendType = "bleno"
    /\ InitEncoderVars /\ InitBlenoVars
    /\ InitRegistryVars /\ InitLegacyVars /\ InitPythonVars
    /\ InitCharVars /\ InitDecoderVars

\* The characteristic object this.indoorBikeDataChar refers to.
CurrentChar == bikeChars[Len(bikeChars)]

\* BlenoBroadcaster.isRunning()
isRunning == blenoStatus # "stopped" /\ blenoStatus # "error"

\* BlenoBroadcaster.start()
BlenoStart ==
    /\ blenoStatus' = "starting"
    /\ IF blenoPoweredOn
       THEN advertising' = "requested" /\ UNCHANGED pendingStart
       ELSE pendingStart' = TRUE /\ UNCHANGED advertising
    /\ stoppedSince' = FALSE
    /\ UNCHANGED <<blenoPoweredOn, servicesPending, clientConnected, bikeChars,
                   bikeDelivered>>
    /\ UNCHANGED <<parserVars, rendererVars, gattVars, controlVars, encoderVars,
                   registryVars, legacyVars, pythonVars, charVars,
                   decoderVars>>

\* BlenoBroadcaster.stop(): pendingStart = false, bleno.stopAdvertising(),
\* status 'stopped'.
BlenoStop ==
    /\ pendingStart' = FALSE
    /\ advertising' = "off"
    /\ blenoStatus' = "stopped"
    /\ stoppedSince' = TRUE
    /\ UNCHANGED <<blenoPoweredOn, servicesPending, clientConnected, bikeChars,
                   bikeDelivered>>
    /\ UNCHANGED <<parserVars, rendererVars, gattVars, controlVars, encoderVars,
                   registryVars, legacyVars, pythonVars, charVars,
                   decoderVars>>

\* bleno 'stateChange'
BlenoStateChange(poweredOn) ==
    /\ blenoPoweredOn' = poweredOn
    /\ IF poweredOn
       THEN /\ advertising' = IF pendingStart THEN "requested" ELSE advertising
            /\ UNCHANGED blenoStatus
       ELSE /\ advertising' = "off"
            /\ blenoStatus' = "stopped"
    /\ UNCHANGED <<pendingStart, servicesPending, clientConnected, bikeChars,
                   bikeDelivered, stoppedSince>>
    /\ UNCHANGED <<parserVars, rendererVars, gattVars, controlVars, encoderVars,
                   registryVars, legacyVars, pythonVars, charVars,
                   decoderVars>>

\* bleno 'advertisingStart': on success setupServices() creates a new
\* IndoorBikeDataCharacteristic and a new controlPointChar, whose
\* _updateValueCallback is not set before a client subscribes to it, and
\* calls bleno.setServices.
BlenoAdvertisingStart(error) ==
    /\ advertising = "requested"
    /\ IF error
       THEN /\ blenoStatus' = "error"
            /\ advertising' = "off"
            /\ UNCHANGED <<bikeChars, servicesPending, blenoCpCallback>>
       ELSE /\ Len(bikeChars) < MaxStarts
            /\ advertising' = "on"
            /\ bikeChars' = Append(bikeChars, NewBikeChar)
            /\ blenoCpCallback' = FALSE
            /\ servicesPending' = TRUE
            /\ UNCHANGED blenoStatus
    /\ UNCHANGED <<pendingStart, blenoPoweredOn, clientConnected, bikeDelivered,
                   stoppedSince>>
    /\ UNCHANGED <<controlGranted, cpClients, backendType, cpHandlers, cpWrite,
                   cpOut>>
    /\ UNCHANGED <<parserVars, rendererVars, gattVars, encoderVars,
                   registryVars, legacyVars, pythonVars, charVars,
                   decoderVars>>

\* The callback of bleno.setServices
BlenoSetServicesDone(error) ==
    /\ servicesPending
    /\ servicesPending' = FALSE
    /\ blenoStatus' = IF error THEN "error" ELSE "advertising"
    /\ UNCHANGED <<pendingStart, blenoPoweredOn, advertising, clientConnected,
                   bikeChars, bikeDelivered, stoppedSince>>
    /\ UNCHANGED <<parserVars, rendererVars, gattVars, controlVars, encoderVars,
                   registryVars, legacyVars, pythonVars, charVars,
                   decoderVars>>

\* bleno 'accept'
BlenoAccept ==
    /\ advertising = "on" /\ ~clientConnected
    /\ clientConnected' = TRUE
    /\ blenoStatus' = "connected"
    /\ UNCHANGED <<pendingStart, blenoPoweredOn, advertising, servicesPending,
                   bikeChars, bikeDelivered, stoppedSince>>
    /\ UNCHANGED <<parserVars, rendererVars, gattVars, controlVars, encoderVars,
                   registryVars, legacyVars, pythonVars, charVars,
                   decoderVars>>

\* bleno 'disconnect'
BlenoDisconnect ==
    /\ clientConnected
    /\ clientConnected' = FALSE
    /\ blenoStatus' = IF blenoStatus = "connected" THEN "advertising"
                      ELSE blenoStatus
    /\ UNCHANGED <<pendingStart, blenoPoweredOn, advertising, servicesPending,
                   bikeChars, bikeDelivered, stoppedSince>>
    /\ UNCHANGED <<parserVars, rendererVars, gattVars, controlVars, encoderVars,
                   registryVars, legacyVars, pythonVars, charVars,
                   decoderVars>>

\* BlenoBroadcaster.sendData(data)
BlenoSendData(data) ==
    /\ bikeChars' = IF Len(bikeChars) > 0
                    THEN [bikeChars EXCEPT ![Len(bikeChars)].currentData = data]
                    ELSE bikeChars
    /\ UNCHANGED <<blenoStatus, pendingStart, blenoPoweredOn, advertising,
                   servicesPending, clientConnected, bikeDelivered, stoppedSince>>
    /\ UNCHANGED <<parserVars, rendererVars, gattVars, controlVars, encoderVars,
                   registryVars, legacyVars, pythonVars, charVars,
                   decoderVars>>

\* The connected client subscribes to Indoor Bike Data.
BikeSubscribe ==
    /\ Len(bikeChars) > 0 /\ ~servicesPending /\ clientConnected
    /\ CurrentChar.subscribers < MaxSubscribers
    /\ bikeChars' = [bikeChars EXCEPT ![Len(bikeChars)] = onSubscribe(@)]
    /\ UNCHANGED <<blenoStatus, pendingStart, blenoPoweredOn, advertising,
                   servicesPending, clientConnected, bikeDelivered, stoppedSince>>
    /\ UNCHANGED <<parserVars, rendererVars, gattVars, controlVars, encoderVars,
                   registryVars, legacyVars, pythonVars, charVars,
                   decoderVars>>

\* A subscription to Indoor Bike Data ends.
BikeUnsubscribe ==
    /\ Len(bikeChars) > 0 /\ CurrentChar.subscribers > 0
    /\ bikeChars' = [bikeChars EXCEPT ![Len(bikeChars)] = onUnsubscribe(@)]
    /\ UNCHANGED <<blenoStatus, pendingStart, blenoPoweredOn, advertising,
                   servicesPending, clientConnected, bikeDelivered, stoppedSince>>
    /\ UNCHANGED <<parserVars, rendererVars, gattVars, controlVars, encoderVars,
                   registryVars, legacyVars, pythonVars, charVars,
                   decoderVars>>

\* The setInterval callback of _startUpdates of characteristic i: build the
\* buffer from _currentData and call every subscriber with it.
BikeTick(i) ==
    LET char == bikeChars[i]
        buffer == _buildIndoorBikeData(char.currentData)
    IN  /\ char.liveTimers > 0
        /\ bikeDelivered' = IF buffer.raised THEN OutOfRange
                            ELSE IF char.subscribers > 0 THEN buffer
                            ELSE bikeDelivered
        /\ UNCHANGED <<blenoStatus, pendingStart, blenoPoweredOn, advertising,
                       servicesPending, clientConnected, bikeChars,
                       stoppedSince>>
        /\ UNCHANGED <<parserVars, rendererVars, gattVars, controlVars,
                       encoderVars, registryVars, legacyVars, pythonVars,
                       charVars, decoderVars>>

BlenoStateChangeStep == \E poweredOn \in BOOLEAN : BlenoStateChange(poweredOn)

BlenoAdvertisingStartStep == \E error \in BOOLEAN : BlenoAdvertisingStart(error)

BlenoSetServicesDoneStep == \E error \in BOOLEAN : BlenoSetServicesDone(error)

BlenoSendDataStep ==
    \E i \in DOMAIN SendDataInputs : BlenoSendData(SendDataInputs[i])

BikeTickStep == \E i \in 1..Len(bikeChars) : BikeTick(i)

NextBleno ==
    \/ BlenoStart
    \/ BlenoStop
    \/ BlenoStateChangeStep
    \/ BlenoAdvertisingStartStep
    \/ BlenoSetServicesDoneStep
    \/ BlenoAccept
    \/ BlenoDisconnect
    \/ BlenoSendDataStep
    \/ BikeSubscribe
    \/ BikeUnsubscribe
    \/ BikeTickStep
    \* the connected client subscribes to the Control Point that
    \* setServices has registered, and a subscription to it ends
    \/ (/\ Len(bikeChars) > 0 /\ ~servicesPending /\ clientConnected
        /\ BlenoControlPointSubscribe)
    \/ (Len(bikeChars) > 0 /\ BlenoControlPointUnsubscribe)

SpecBleno == InitBleno /\ [][NextBleno]_vars

----------------------------------------------------------------------------
(* The registry as a state machine: the module-level initialisation over   *)
(* a drawn list of JSON specs, then calls of parse() on the loaded Map.    *)

MaxSpecs == 2

MaxCalls == 3

SpecFileLists == UNION {[1..n -> JsonSpecFiles] : n \in 0..MaxSpecs}

\* Calls of parse() made on the loaded registry.
RegistryInputs ==
    { <<NumUuid(10962), <<68, 0, 75, 84>>>>,
      <<NumUuid(10962), <<75>>>>,
      <<StrUuid(<<"0","x","2","A","D","2">>), <<68, 0, 75, 84>>>>,
      <<NumUuid(10807), <<75, 84, 0>>>>,
      <<NumUuid(42), <<0, 84>>>>,
      <<NumUuid(10843), <<75, 68, 84>>>> }

ParseCall(uuid, payload, outcome) ==
    [uuid |-> uuid, payload |-> payload, outcome |-> outcome]

InitRegistry ==
    /\ inUuid = NumUuid(6182)
    /\ inPayload = <<>>
    /\ InitParserVars /\ InitRendererVars /\ InitGattVars
    /\ InitControlVars /\ InitEncoderVars /\ InitBlenoVars
    /\ InitLegacyVars /\ InitPythonVars
    /\ InitCharVars /\ InitDecoderVars
    /\ specFiles \in SpecFileLists
    /\ registry = EmptyRecord
    /\ loadOutcome = LoadOutcome("pending", "none")
    /\ parseLog = <<>>

\* Import of device-spec-parser.ts: the module-level code at lines 99-136.
LoadRegistry ==
    LET st == loadRegistry(specFiles,
                  [map |-> EmptyRecord, outcome |-> LoadOutcome("loaded", "none")])
    IN  /\ loadOutcome.status = "pending"
        /\ registry' = st.map
        /\ loadOutcome' = st.outcome
        /\ UNCHANGED <<specFiles, parseLog>>
        /\ UNCHANGED <<parserVars, rendererVars, gattVars, controlVars,
                       encoderVars, blenoVars, legacyVars, pythonVars,
                       charVars, decoderVars>>

\* deviceSpecParser.parse(characteristicUuid, rawValue) on the loaded
\* module; the singleton does not exist when the import raised.
RegistryParse(uuid, payload) ==
    LET fitnessData == parseWithRegistry(registry, uuid, payload) IN
    /\ loadOutcome.status = "loaded"
    /\ Len(parseLog) < MaxCalls
    /\ inUuid' = uuid
    /\ inPayload' = payload
    /\ result' = fitnessData
    /\ pc' = "done"
    /\ parseLog' = Append(parseLog, ParseCall(uuid, payload, fitnessData))
    /\ UNCHANGED <<specFiles, registry, loadOutcome>>
    /\ UNCHANGED <<rendererVars, gattVars, controlVars, encoderVars, blenoVars,
                   legacyVars, pythonVars, charVars, decoderVars>>

RegistryParseStep == \E in \in RegistryInputs : RegistryParse(in[1], in[2])

NextRegistry ==
    \/ LoadRegistry
    \/ RegistryParseStep

SpecRegistry == InitRegistry /\ [][NextRegistry]_vars

----------------------------------------------------------------------------
(* The Heart Rate Measurement decoders as a state machine: calls of the   *)
(* two decoders on a drawn payload.                                        *)

InitHeartRate ==
    /\ inUuid = NumUuid(10807)
    /\ inPayload \in HeartRatePayloads
    /\ InitParserVars /\ InitRendererVars /\ InitGattVars
    /\ InitControlVars /\ InitEncoderVars /\ InitBlenoVars
    /\ InitRegistryVars /\ InitLegacyVars /\ InitPythonVars
    /\ InitCharVars /\ InitDecoderVars

\* FitnessDataParser.parseByType, case 'heart-rate'
ParseHeartRateMeasurement ==
    /\ hrParsed' = parseHeartRateMeasurement(inPayload)
    /\ UNCHANGED <<parserVars, rendererVars, gattVars, controlVars,
                   encoderVars, blenoVars, registryVars, pythonVars,
                   charVars, decoderVars>>

\* A call of parseHeartRateData(value)
ParseHeartRateData ==
    /\ hrParsed' = parseHeartRateData(inPayload)
    /\ UNCHANGED <<parserVars, rendererVars, gattVars, controlVars,
                   encoderVars, blenoVars, registryVars, pythonVars,
                   charVars, decoderVars>>

NextHeartRate ==
    \/ ParseHeartRateMeasurement
    \/ ParseHeartRateData

SpecHeartRate == InitHeartRate /\ [][NextHeartRate]_vars

----------------------------------------------------------------------------
(* PythonBroadcaster as a state machine: the calls of the main process     *)
(* (start, stop), the events of the child processes and the two timers.    *)

InitPython ==
    /\ inUuid = NumUuid(6182)
    /\ inPayload = <<>>
    /\ InitParserVars /\ InitRendererVars /\ InitGattVars
    \* the branch of the constructor that creates a PythonBroadcaster
    /\ InitControlVars /\ backendType = "python"
    /\ InitEncoderVars /\ InitBlenoVars
    /\ InitRegistryVars /\ InitLegacyVars /\ InitPythonVars
    /\ InitCharVars /\ InitDecoderVars

OtherThanPython ==
    <<parserVars, rendererVars, gattVars, controlVars, encoderVars, blenoVars,
      registryVars, legacyVars, charVars, decoderVars>>

\* Of a set of child numbers, those whose exit was not delivered yet.
Running(ks) ==
    {k \in ks : k \in 1..Len(python.alive) /\ python.alive[k]}

\* BluetoothBroadcaster.start() -> PythonBroadcaster.start()
PythonStart(spawnThrows) ==
    /\ Len(python.alive) < MaxSpawns
    /\ python' = start(python, spawnThrows)
    /\ pyStoppedSince' = FALSE
    /\ pyRestartsInRow' = 0
    /\ UNCHANGED pyKilled
    /\ UNCHANGED OtherThanPython

\* BluetoothBroadcaster.stop() -> PythonBroadcaster.stop()
PythonStop(writeThrows) ==
    /\ Len(stop(python, writeThrows).killTimers) <= MaxTimers
    /\ python' = stop(python, writeThrows)
    /\ pyStoppedSince' = (pyStoppedSince \/ python.process # 0)
    /\ pyRestartsInRow' = 0
    /\ pyKilled' = IF python.process # 0 /\ writeThrows
                   THEN Running(pyKilled \cup {python.process})
                   ELSE pyKilled
    /\ UNCHANGED OtherThanPython

\* stdout 'data' of a child that was spawned: one line with a status
\* member.  The listener stays on the child's stdout after its 'exit', and
\* handleOutput() reads neither this.process nor whether the child exited.
PythonOutput(status) ==
    /\ Len(python.alive) > 0
    /\ python' = handleOutput(python, status)
    /\ pyRestartsInRow' = 0
    /\ UNCHANGED <<pyStoppedSince, pyKilled>>
    /\ UNCHANGED OtherThanPython

\* 'exit' of child k
PythonProcessExit(k) ==
    LET b == handleProcessExit([python EXCEPT !.alive[k] = FALSE]) IN
    /\ python.alive[k]
    /\ b.restartTimers <= MaxTimers
    /\ python' = b
    /\ pyKilled' = pyKilled \ {k}
    /\ UNCHANGED <<pyStoppedSince, pyRestartsInRow>>
    /\ UNCHANGED OtherThanPython

\* 'error' of child k: status 'error', then handleProcessExit(); the
\* child's 'exit' may or may not follow.
PythonProcessError(k, exits) ==
    /\ python.alive[k]
    /\ python' = handleProcessExit(
                    [python EXCEPT !.state = "error",
                                   !.error = "process error",
                                   !.alive[k] = exits])
    /\ pyKilled' = IF exits THEN pyKilled ELSE pyKilled \ {k}
    /\ UNCHANGED <<pyStoppedSince, pyRestartsInRow>>
    /\ UNCHANGED OtherThanPython

\* The 1 s timer of handleProcessExit(): this.start()
PythonRestartTimer(spawnThrows) ==
    LET b == start([python EXCEPT !.restartTimers = @ - 1], spawnThrows) IN
    /\ python.restartTimers > 0
    /\ Len(python.alive) < MaxSpawns
    /\ python' = b
    /\ pyRestartsInRow' = IF Len(b.alive) > Len(python.alive)
                          THEN pyRestartsInRow + 1 ELSE pyRestartsInRow
    /\ UNCHANGED <<pyStoppedSince, pyKilled>>
    /\ UNCHANGED OtherThanPython

\* The 2 s timer of stop()
PythonKillTimer ==
    /\ python.killTimers # <<>>
    /\ python' = killTimerCallback(python)
    /\ pyKilled' = Running(pyKilled \cup {python.process})
    /\ UNCHANGED <<pyStoppedSince, pyRestartsInRow>>
    /\ UNCHANGED OtherThanPython

PythonStartStep == \E spawnThrows \in BOOLEAN : PythonStart(spawnThrows)

PythonStopStep == \E writeThrows \in BOOLEAN : PythonStop(writeThrows)

PythonOutputStep == \E status \in OutputStatuses : PythonOutput(status)

PythonProcessExitStep == \E k \in 1..Len(python.alive) : PythonProcessExit(k)

PythonProcessErrorStep ==
    \E k \in 1..Len(python.alive), exits \in BOOLEAN :
        PythonProcessError(k, exits)

PythonRestartTimerStep ==
    \E spawnThrows \in BOOLEAN : PythonRestartTimer(spawnThrows)

NextPython ==
    \/ PythonStartStep
    \/ PythonStopStep
    \/ PythonOutputStep
    \/ PythonProcessExitStep
    \/ PythonProcessErrorStep
    \/ PythonRestartTimerStep
    \/ PythonKillTimer

SpecPython == InitPython /\ [][NextPython]_vars

----------------------------------------------------------------------------
(* One IndoorBikeDataCharacteristic with several clients: each client      *)
(* subscribes with a callback of its own and unsubscribes later.           *)

Clients == 1..(MaxSubscribers + 1)

InitBikeChar ==
    /\ inUuid = NumUuid(6182)
    /\ inPayload = <<>>
    /\ InitParserVars /\ InitRendererVars /\ InitGattVars
    \* the branch of the constructor that creates a BlenoBroadcaster
    /\ InitControlVars /\ backendType = "bleno"
    /\ InitEncoderVars /\ InitBlenoVars
    /\ InitRegistryVars /\ InitLegacyVars /\ InitPythonVars
    /\ InitCharVars /\ InitDecoderVars

OtherThanChar ==
    <<parserVars, rendererVars, gattVars, controlVars, encoderVars, blenoVars,
      registryVars, legacyVars, pythonVars, decoderVars>>

\* onSubscribe(maxValueSize, updateValueCallback) for client c:
\* _subscribers.push(updateValueCallback)
CharSubscribe(c) ==
    /\ c \notin bikeSubscribed
    /\ bikeChar' = onSubscribe(bikeChar)
    /\ bikeCallbacks' = Append(bikeCallbacks, c)
    /\ bikeSubscribed' = bikeSubscribed \cup {c}
    /\ bikeInvoked' = {}
    /\ UNCHANGED OtherThanChar

\* onUnsubscribe() for client c: _subscribers.pop() removes the last
\* callback of the array.
CharUnsubscribe(c) ==
    /\ c \in bikeSubscribed
    /\ bikeChar' = onUnsubscribe(bikeChar)
    /\ bikeCallbacks' = SubSeq(bikeCallbacks, 1, Len(bikeCallbacks) - 1)
    /\ bikeSubscribed' = bikeSubscribed \ {c}
    /\ bikeInvoked' = {}
    /\ UNCHANGED OtherThanChar

\* updateData(data)
CharUpdateData(data) ==
    /\ bikeChar' = [bikeChar EXCEPT !.currentData = data]
    /\ UNCHANGED <<bikeCallbacks, bikeSubscribed, bikeInvoked>>
    /\ UNCHANGED OtherThanChar

\* The setInterval callback: _buildIndoorBikeData(_currentData), whose
\* RangeError ends the callback, then
\* _subscribers.forEach(callback => callback(buffer))
CharTick ==
    /\ bikeChar.liveTimers > 0
    /\ bikeInvoked' = IF _buildIndoorBikeData(bikeChar.currentData).raised
                      THEN {}
                      ELSE {bikeCallbacks[i] : i \in 1..Len(bikeCallbacks)}
    /\ UNCHANGED <<bikeChar, bikeCallbacks, bikeSubscribed>>
    /\ UNCHANGED OtherThanChar

CharSubscribeStep == \E c \in Clients : CharSubscribe(c)

CharUnsubscribeStep == \E c \in Clients : CharUnsubscribe(c)

CharUpdateDataStep ==
    \E i \in DOMAIN SendDataInputs : CharUpdateData(SendDataInputs[i])

NextBikeChar ==
    \/ CharSubscribeStep
    \/ CharUnsubscribeStep
    \/ CharUpdateDataStep
    \/ CharTick

SpecBikeChar == InitBikeChar /\ [][NextBikeChar]_vars

----------------------------------------------------------------------------
(* Properties of DeviceSpecParser, checked under SpecParser.               *)

Done == pc = "done"

\* The parser ran the field loops (the payload passed minLength and
\* validation and no access raised).
Decoded == Done /\ HasSpec /\ ~result.raised /\ "sourceType" \in DOMAIN result.data

IsDynamic == HasSpec /\ TheSpec.mode = "dynamic"
IsStatic  == HasSpec /\ TheSpec.mode # "dynamic"

\* The flags word of the payload, read as the spec declares it.
PayloadFlags ==
    IF specFlagSize(TheSpec) = 1 THEN inPayload[specFlagOffset(TheSpec) + 1]
    ELSE inPayload[specFlagOffset(TheSpec) + 1]
         + 256 * inPayload[specFlagOffset(TheSpec) + 2]

FlagBase == specFlagOffset(TheSpec) + specFlagSize(TheSpec)

\* Trace kinds that moved the cursor.
Consuming == {"read", "skip", "linked"}

RECURSIVE ConsumedBefore(_, _)
ConsumedBefore(tr, k) ==
    IF k <= 1 THEN 0
    ELSE ConsumedBefore(tr, k - 1)
         + (IF tr[k - 1].kind \in Consuming THEN tr[k - 1].size ELSE 0)

\* Presence of dynamic field i by its own flag bit.
PresentByFlag(i) ==
    LET f == TheSpec.dynamicFields[i] IN
    BitSet(PayloadFlags, f.flagBit) # f.flagInverted

\* Presence of the group dynamic field i belongs to: a linked field has the
\* presence of its predecessor.
RECURSIVE GroupPresent(_)
GroupPresent(i) ==
    IF TheSpec.dynamicFields[i].linkedToPrevious /\ i > 1
    THEN GroupPresent(i - 1)
    ELSE PresentByFlag(i)

\* Names that a computed field of the spec writes.
ComputedNames == {TheSpec.computed[k].name : k \in 1..Len(TheSpec.computed)}

\* C1: parse returns a record and never raises, for every spec and every
\* payload (stated as the claim states it; the code raises a RangeError on
\* an unguarded read of the flags word or of a condition's flag byte).
C1_ParseNeverRaises == Done => ~result.raised

\* C2: in dynamic mode every loop iteration finds the cursor at
\* flagOffset+flagSize plus the widths of the fields consumed before it, a
\* field whose own flag bit marks it absent consumes nothing, and with
\* fields at bits 2, 4, 6 and flags having bits 2 and 6 set and bit 4 clear
\* exactly two values are read, back-to-back right after the flags word.
C2_DynamicCursor ==
    (Decoded /\ IsDynamic) =>
        LET tr == result.trace
            fs == TheSpec.dynamicFields
        IN
        /\ Len(tr) = Len(fs)
        /\ \A k \in 1..Len(tr) :
              /\ tr[k].offset = FlagBase + ConsumedBefore(tr, k)
              /\ (~fs[k].linkedToPrevious /\ ~PresentByFlag(k))
                    => tr[k].kind = "absent"
              /\ (tr[k].kind \in {"read", "skip"})
                    => (~fs[k].linkedToPrevious /\ PresentByFlag(k))
        /\ (/\ TheSpec.id = "dyn246"
            /\ BitSet(PayloadFlags, 2) /\ ~BitSet(PayloadFlags, 4)
            /\ BitSet(PayloadFlags, 6)
            /\ Len(inPayload) >= 4)
              => /\ <<tr[1].kind, tr[1].offset>> = <<"read", 2>>
                 /\ tr[2].kind = "absent"
                 /\ <<tr[3].kind, tr[3].offset>> = <<"read", 3>>
                 /\ DOMAIN result.data = {"cadence", "power", "sourceType"}
                 /\ result.data["cadence"] = 100 * inPayload[3]
                 /\ result.data["power"] = 100 * inPayload[4]

C2_Witness ==
    /\ Done /\ inUuid = NumUuid(10962) /\ inPayload = <<68, 0, 75, 84>>
    /\ result.data = [cadence |-> 7500, power |-> 8400, sourceType |-> "dyn246"]

\* C3: in dynamic mode, once a present field does not fit in the remaining
\* bytes, no field declared after it is read or stored (stated as the claim
\* states it; the code continues with the next field).
C3_UnderrunStopsFields ==
    (Decoded /\ IsDynamic) =>
        \A k \in 1..Len(result.trace) :
            result.trace[k].kind = "short" =>
                \A m \in (k + 1)..Len(result.trace) :
                    result.trace[m].kind \notin {"read", "skip"}

\* C4: a linkedToPrevious field is consumed (cursor advanced by its width,
\* value never stored) exactly when its predecessor's group is present,
\* whatever its own flag bit; when the group is absent the cursor is not
\* advanced for it (stated as the claim states it; the code advances the
\* cursor for a linked field without looking at any presence).
C4_LinkedSharesPresence ==
    (Decoded /\ IsDynamic) =>
        \A i \in 1..Len(TheSpec.dynamicFields) :
            TheSpec.dynamicFields[i].linkedToPrevious =>
                /\ TheSpec.dynamicFields[i].name \notin DOMAIN result.data
                /\ (GroupPresent(i)
                    /\ Len(inPayload) >= result.trace[i].offset
                                         + result.trace[i].size)
                      => result.trace[i].kind = "linked"
                /\ ~GroupPresent(i) => result.trace[i].kind # "linked"

\* Where the payload holds dynamic field i according to its flags: right
\* after the flags word and the fields of the groups present before it.
RECURSIVE ExpectedOffset(_)
ExpectedOffset(i) ==
    IF i <= 1 THEN FlagBase
    ELSE ExpectedOffset(i - 1)
         + (IF GroupPresent(i - 1)
            THEN getTypeSize(TheSpec.dynamicFields[i - 1].type) ELSE 0)

\* The payload contains dynamic field i and record value v is its value.
DynamicFieldHolds(i, v) ==
    LET f == TheSpec.dynamicFields[i] IN
    /\ ~f.linkedToPrevious /\ ~f.skip
    /\ PresentByFlag(i)
    /\ ExpectedOffset(i) + getTypeSize(f.type) <= Len(inPayload)
    /\ v = ScaleAndRound(readValue(inPayload, ExpectedOffset(i), f.type,
                                   "little"),
                         f.divisor, f.multiplier)

\* The condition of a static field as the spec defines it: the flag byte
\* is in the payload and its bit has the expected value, and the field's
\* raw value, read with its declared type and endian, is within the bounds.
ConditionHolds(f) ==
    LET c == f.condition
        raw == readValue(inPayload, f.offset, f.type, f.endian)
    IN
    /\ c.hasFlag => /\ c.flagOffset < Len(inPayload)
                    /\ BitSet(inPayload[c.flagOffset + 1], c.flagBit)
                       = c.flagValue
    /\ c.hasMin => c.min <= raw
    /\ c.hasMax => raw <= c.max

\* The payload contains static field i and record value v is its value.
StaticFieldHolds(i, v) ==
    LET f == TheSpec.fields[i] IN
    /\ f.offset + getTypeSize(f.type) <= Len(inPayload)
    /\ ConditionHolds(f)
    /\ v = ScaleAndRound(readValue(inPayload, f.offset, f.type, f.endian),
                         f.divisor, f.multiplier)

\* C5: a raw (non-computed) field is in the decoded record only if the
\* payload contained that field's bytes at the position given by the
\* flags/offsets and its condition passed, and the stored value is the one
\* read there (stated as the claim states it; the code reads a later
\* dynamic field from the bytes of a truncated or absent one).
C5_FieldOnlyIfContained ==
    Decoded =>
        \A n \in (DOMAIN result.data) \ ({"sourceType"} \cup ComputedNames) :
            IF IsDynamic
            THEN \E i \in 1..Len(TheSpec.dynamicFields) :
                    /\ TheSpec.dynamicFields[i].name = n
                    /\ DynamicFieldHolds(i, result.data[n])
            ELSE \E i \in 1..Len(TheSpec.fields) :
                    /\ TheSpec.fields[i].name = n
                    /\ StaticFieldHolds(i, result.data[n])

\* Some magic-byte or version check of the spec fails on the payload; a
\* payload too short to hold the checked offset counts as a mismatch.
CheckFails(check) ==
    \/ Len(inPayload) <= check.offset
    \/ inPayload[check.offset + 1] # check.value

ValidationFails ==
    \/ \E k \in 1..Len(TheSpec.validation.magicBytes) :
            CheckFails(TheSpec.validation.magicBytes[k])
    \/ \E k \in 1..Len(TheSpec.validation.versionCheck) :
            CheckFails(TheSpec.validation.versionCheck[k])

\* C6: a payload shorter than spec.minLength or failing a magic-byte or
\* version check yields the empty record (no metric field, no sourceType)
\* and no error.
C6_RejectedPayloadEmpty ==
    (Done /\ HasSpec /\ (Len(inPayload) < TheSpec.minLength \/ ValidationFails))
        => (~result.raised /\ result.data = EmptyRecord)

C6_Witness ==
    /\ Done /\ inUuid = NumUuid(10807) /\ inPayload = <<75, 68>>
    /\ ~result.raised /\ DOMAIN result.data = {}

\* C7: a computed field is absent (not zero) when one of its operands is
\* absent from the record, or when it is a divide whose operand[1] is 0;
\* with operands cadence and resistance and a payload that yields cadence
\* but no resistance, the computed power is absent.  Stated for computed
\* fields whose name no other field of the spec writes.
C7_ComputedSkipped ==
    (Decoded /\ IsStatic) =>
        /\ \A k \in 1..Len(TheSpec.computed) :
            LET c == TheSpec.computed[k]
                d == result.data
                unique ==
                    /\ \A j \in 1..Len(TheSpec.computed) :
                            j # k => TheSpec.computed[j].name # c.name
                    /\ \A j \in 1..Len(TheSpec.fields) :
                            TheSpec.fields[j].name # c.name
            IN  unique =>
                /\ (\E i \in 1..Len(c.operands) : c.operands[i] \notin DOMAIN d)
                        => c.name \notin DOMAIN d
                /\ (/\ c.operation = "divide"
                    /\ Len(c.operands) >= 2
                    /\ c.operands[2] \in DOMAIN d
                    /\ c.operands[2] \notin ComputedNames
                    /\ d[c.operands[2]] = 0)
                        => c.name \notin DOMAIN d
        /\ (/\ TheSpec.id = "computed"
            /\ "cadence" \in DOMAIN result.data
            /\ "resistance" \notin DOMAIN result.data)
                => "power" \notin DOMAIN result.data

C7_Witness ==
    /\ Done /\ inUuid = StrUuid(<<"0","x","2","A","6","3">>)
    /\ inPayload = <<75, 255>>
    /\ DOMAIN result.data =
          {"cadence", "sourceType", "ratio", "load", "total", "share"}

\* C8: in static mode a field with a range condition is stored if and only
\* if its raw value, read with the field's declared type and endian (the
\* value that is then scaled and stored), satisfies min <= raw <= max
\* (stated as the claim states it; the code tests a little-endian read
\* whatever the field's endian).
C8_RangeOnDeclaredRaw ==
    (Decoded /\ IsStatic) =>
        \A i \in 1..Len(TheSpec.fields) :
            LET f == TheSpec.fields[i]
                raw == readValue(inPayload, f.offset, f.type, f.endian)
            IN
            (/\ f.condition.present /\ ~f.condition.hasFlag
             /\ f.condition.hasMin /\ f.condition.hasMax
             /\ ~startsWithUnderscore(f.name)
             /\ f.offset + getTypeSize(f.type) <= Len(inPayload))
                => /\ (f.name \in DOMAIN result.data)
                        <=> (f.condition.min <= raw /\ raw <= f.condition.max)
                   /\ (f.name \in DOMAIN result.data)
                        => result.data[f.name]
                           = ScaleAndRound(raw, f.divisor, f.multiplier)

----------------------------------------------------------------------------
(* Properties of the renderer's merge, checked under SpecRenderer.         *)

\* C9: when a decoded record arrives, the merged snapshot takes the value
\* of every field present in the record and keeps every other field as it
\* was (present with its previous value, or absent); a tick, a broadcaster
\* status event or a payload that yields no record changes no field.
C9_MergeKeepsOtherFields ==
    [][ /\ (RawDataStep /\ ~result'.raised) =>
            LET old == latestFitnessData.fields
                new == latestFitnessData'.fields
                rec == result'.data
            IN  /\ ~latestFitnessData'.isNull
                /\ \A f \in DOMAIN old \cup DOMAIN new \cup DOMAIN rec :
                      IF f \in DOMAIN rec
                      THEN f \in DOMAIN new /\ new[f] = rec[f]
                      ELSE /\ f \in DOMAIN old /\ f \in DOMAIN new
                           /\ new[f] = old[f]
        /\ ((RawDataStep /\ result'.raised) \/ Tick \/ BroadcasterStatusStep)
                => latestFitnessData' = latestFitnessData
      ]_vars

\* A record of one characteristic arrived after one of another, and the
\* heart rate supplied by the earlier one is still in the snapshot.
C9_Witness ==
    /\ pc = "done" /\ ~result.raised
    /\ result.data = [cadence |-> 7500, power |-> 8400, sourceType |-> "dyn246"]
    /\ ~latestFitnessData.isNull
    /\ latestFitnessData.fields =
            [cadence |-> 7500, power |-> 8400, heartRate |-> 6800,
             sourceType |-> "dyn246"]

----------------------------------------------------------------------------
(* Properties of the GATT server's snapshot, checked under SpecGatt.       *)

LastWritten == written[Len(written)]

\* C10: under any interleaving of UpdateData and the notify loop, the
\* snapshot a tick reads is the latest one written before it, and every
\* Indoor Bike Data value notified is the encoding of one whole snapshot
\* handed to UpdateData (the one its tick read), never a mixture of two
\* (stated as the claim states it, of every notification to every
\* subscribed client; the code sends the encoding to the first client of
\* a tick only).
C10_NotifyLatestUntorn ==
    /\ [](\A i \in 1..Len(notified) :
            \E k \in 1..Len(written) :
                \E cadence \in UShortOfDouble(written[k].Cadence * 2) :
                    notified[i] = BuildIndoorBikeData(written[k], cadence))
    /\ [][NotifyRead => notifyData' = LastWritten]_vars
    /\ [][(NotifyBikeClientStep /\ Len(notified') > Len(notified)) =>
            /\ \E cadence \in UShortOfDouble(notifyData.Cadence * 2) :
                    notified'[Len(notified')] =
                        BuildIndoorBikeData(notifyData, cadence)
            /\ \E k \in 1..Len(written) : notifyData = written[k]]_vars

----------------------------------------------------------------------------
(* Properties of the control points, checked under SpecControl.            *)

\* The call of OnControlPointWriteRequested got a request with at least an
\* op code.
Carried(h) == h.pc # "request" /\ h.write.hasRequest /\ Len(h.write.bytes) > 0

BlenoHandled == BlenoWriteStep /\ Len(cpWrite'.bytes) > 0

SupportedOpCodes == {0, 1, 4, 5, 7, 8}

\* C11: every control-point write that carries an op code, whatever its
\* outcome, makes the server send exactly one indication {0x80, op code,
\* result} with result 0x01 or 0x02 to each subscriber of the control
\* characteristic; with no subscriber nothing is sent and the write request
\* is still answered.  In the C# server the subscribers are the clients
\* subscribed when the response is begun, and a handler whose
\* SendControlPointResponse has returned has called NotifyValueAsync once
\* for each of them (a call that threw counts as made).
C11_EveryWriteIndicated ==
    /\ [](\A h \in BagToSet(cpHandlers) :
            Carried(h) =>
                /\ \A i \in 1..Len(h.indications) :
                      \E rc \in {1, 2} :
                         h.indications[i] =
                            [client |-> i,
                             value |-> <<128, h.write.bytes[1], rc>>]
                /\ h.write.withResponse => h.responded
                /\ h.pc = "notify" => h.sent \in 1..Len(h.indications)
                /\ h.pc = "done" => h.sent = Len(h.indications))
    /\ [][ /\ \A write \in ForwarderWrites :
               (RequestReceived(write) /\ write.hasRequest
                    /\ Len(write.bytes) > 0) =>
                  LET h == HandleRequest(write, controlGranted, cpClients) IN
                  /\ BagIn(h, cpHandlers')
                  /\ Len(h.indications) = cpClients
                  /\ h.pc = IF cpClients = 0 THEN "done" ELSE "notify"
           /\ BlenoHandled =>
                  LET op == cpWrite'.bytes[1] IN
                  /\ cpOut'.responded
                  /\ IF blenoCpCallback
                     THEN \E rc \in {1, 2} :
                             cpOut'.indications =
                                << [client |-> 1, value |-> <<128, op, rc>>] >>
                     ELSE cpOut'.indications = <<>>
         ]_vars

\* C12: the bleno Control Point answers a write whose op code is not one of
\* 0x00, 0x01, 0x04, 0x05, 0x07, 0x08 with the indication
\* {0x80, op code, 0x02 NotSupported}.
C12_BlenoUnknownOpNotSupported ==
    [][ (BlenoHandled /\ blenoCpCallback
            /\ cpWrite'.bytes[1] \notin SupportedOpCodes)
          => cpOut'.indications =
                << [client |-> 1, value |-> <<128, cpWrite'.bytes[1], 2>>] >>
      ]_vars

\* C13: HandleControlPoint answers Success for op codes 0x00, 0x01, 0x04,
\* 0x05, 0x07, 0x08 and NotSupported for every other one, whatever the
\* parameter bytes and whether or not control was granted before, and that
\* result is the one every handler indicates.
C13_ResultByOpCodeAlone ==
    /\ \A value \in ControlWrites \ {<<>>}, granted \in BOOLEAN :
          HandleControlPoint(value[1], value, granted).result
             = IF value[1] \in SupportedOpCodes THEN 1 ELSE 2
    /\ \A h \in BagToSet(cpHandlers) :
          Carried(h) =>
             LET op == h.write.bytes[1]
                 expected == IF op \in SupportedOpCodes THEN 1 ELSE 2
             IN  /\ HandleControlPoint(op, h.write.bytes, controlGranted).result
                       = expected
                 /\ \A i \in 1..Len(h.indications) :
                       h.indications[i].value = <<128, op, expected>>

\* Set Target Power was answered with Success although Request Control was
\* never received.
C13_Witness ==
    /\ ~controlGranted
    /\ BagIn(Handler("done",
                     ControlWrite("forwarder", <<5, 200, 0>>, TRUE, TRUE), TRUE,
                     << [client |-> 1, value |-> <<128, 5, 1>>] >>, 1),
             cpHandlers)

\* C14: after a Reset command (op code 0x01) control is no longer marked
\* granted, and the command is answered with Success.
C14_ResetReturnsToIdle ==
    [][ \A write \in ForwarderWrites :
          (RequestReceived(write) /\ write.hasRequest /\ Len(write.bytes) > 0
              /\ write.bytes[1] = OpReset) =>
             LET h == HandleRequest(write, controlGranted, cpClients) IN
             /\ ~controlGranted'
             /\ \A i \in 1..Len(h.indications) :
                   h.indications[i].value = <<128, 1, 1>>
      ]_vars

----------------------------------------------------------------------------
(* Properties of the renderer's tick, checked under SpecRenderer.          *)

\* The connection-change handler took its stopUpdateInterval() branch.
StopIntervalStep ==
    \E connected \in BOOLEAN, hasDeviceName \in BOOLEAN :
        /\ ~(connected /\ hasDeviceName)
        /\ OnConnectionChange(connected, hasDeviceName)

\* C15: at most one interval timer is armed, and one is armed exactly when
\* the handle updateInterval is held; stopUpdateInterval leaves no timer
\* armed, so that nothing is sent to the broadcaster until an interval is
\* started again; stopping twice is the same as stopping once, and a stop
\* when already stopped arms and sends nothing.
C15_StopImmediateIdempotent ==
    /\ [](/\ liveIntervals \in {0, 1}
          /\ updateInterval <=> (liveIntervals = 1)
          /\ stopUpdateInterval(stopUpdateInterval(TimerState))
                = stopUpdateInterval(TimerState)
          /\ startUpdateInterval(TimerState).liveIntervals = 1)
    /\ [][StopIntervalStep =>
            /\ ~updateInterval' /\ liveIntervals' = 0
            /\ lastSent' = lastSent
            /\ ~updateInterval => liveIntervals' = liveIntervals]_vars
    /\ [][(liveIntervals = 0 /\ liveIntervals' = 0) => lastSent' = lastSent]_vars

\* Data was sent to the broadcaster while the interval ran, and the
\* interval has since been stopped.
C15_Witness ==
    /\ ~updateInterval /\ liveIntervals = 0
    /\ latestFitnessData.isNull
    /\ isBroadcasting
    /\ "power" \in DOMAIN lastSent

----------------------------------------------------------------------------
(* Properties of the encoders, checked under SpecEncoder.                  *)

\* FTMS Indoor Bike Data: width in bytes of the field each flag bit
\* declares (bit 0 declares Instantaneous Speed when it is 0).
FtmsFieldWidth(bit) ==
    CASE bit = 4 -> 3
      [] bit = 8 -> 5
      [] bit \in {9, 10} -> 1
      [] OTHER -> 2

FtmsFieldPresent(flags, bit) ==
    IF bit = 0 THEN ~BitSet(flags, 0) ELSE BitSet(flags, bit)

RECURSIVE FtmsWidthBelow(_, _)
\* Sum of the widths of the fields declared by the bits below bit.
FtmsWidthBelow(flags, bit) ==
    IF bit = 0 THEN 0
    ELSE FtmsWidthBelow(flags, bit - 1)
         + (IF FtmsFieldPresent(flags, bit - 1) THEN FtmsFieldWidth(bit - 1)
            ELSE 0)

\* Zero-based offset of the field of a flag bit in a buffer with these flags.
FtmsFieldOffset(flags, bit) == 2 + FtmsWidthBelow(flags, bit)

BufferFlags(buf) == buf[1] + 256 * buf[2]

U16At(buf, offset) == buf[offset + 1] + 256 * buf[offset + 2]

U24At(buf, offset) ==
    buf[offset + 1] + 256 * buf[offset + 2] + 65536 * buf[offset + 3]

U32At(buf, offset) ==
    buf[offset + 1] + 256 * buf[offset + 2] + 65536 * buf[offset + 3]
        + 16777216 * buf[offset + 4]

\* Flag bits of the fields each encoder writes.
BlenoWrittenFields == {0, 2, 6, 9}
ForwarderWrittenFields == {0, 2, 4, 6, 8, 9, 11}

\* C17: in every buffer an Indoor Bike Data encoder returns, the flags word
\* declares exactly the fields the encoder writes (bit 0 is 0, speed being
\* written), the length is 2 plus the widths of the declared fields, and
\* each written value sits at the offset the flags give it in FTMS order.
C17_FlagsMatchBytes ==
    (encOut.kind \in {"bleno", "forwarder"} /\ ~encOut.raised) =>
        LET buf == encOut.buffer
            flags == BufferFlags(buf)
            fields == IF encOut.kind = "bleno" THEN BlenoWrittenFields
                      ELSE ForwarderWrittenFields
            at(bit) == FtmsFieldOffset(flags, bit)
        IN  /\ ~BitSet(flags, 0)
            /\ \A bit \in 0..15 :
                  (bit \in fields) <=> (bit <= 12 /\ FtmsFieldPresent(flags, bit))
            /\ Len(buf) = 2 + FtmsWidthBelow(flags, 13)
            /\ IF encOut.kind = "bleno"
               THEN /\ U16At(buf, at(0)) = orZero(encRecord, "speed")
                    /\ U16At(buf, at(2))
                          = RoundDiv(2 * orZero(encRecord, "cadence"), 100)
                    /\ U16At(buf, at(6))
                          = TruncDiv(orZero(encRecord, "power"), 100) % 65536
                    /\ buf[at(9) + 1]
                          = TruncDiv(orZero(encRecord, "heartRate"), 100)
               ELSE /\ U16At(buf, at(0)) = 0
                    /\ U16At(buf, at(2)) \in UShortOfDouble(encFitness.Cadence * 2)
                    /\ U24At(buf, at(4)) = encFitness.Distance
                    /\ U16At(buf, at(6)) = encFitness.Power % 65536
                    /\ U16At(buf, at(8)) = encFitness.Calories
                    /\ U16At(buf, at(8) + 2) = 0 /\ buf[at(8) + 5] = 0
                    /\ buf[at(9) + 1] = encFitness.HeartRate
                    /\ U16At(buf, at(11)) = encFitness.ElapsedTime

\* The extended encoder returned its 19 bytes for a record with every
\* member set.
C17_Witness ==
    /\ encOut.kind = "forwarder" /\ ~encOut.raised
    /\ encFitness = FitnessData(200, 9050, 130, 70000, 300, 600)
    /\ Len(encOut.buffer) = 19
    /\ BufferFlags(encOut.buffer) = 2900

\* C18: for every FTMS output record _buildIndoorBikeData returns a 9-byte
\* buffer: flags 0x0244, round(speed * 100), round(cadence * 2) and power,
\* 16 bits little-endian each, then the heart rate byte, 0 when absent.
C18_NineByteLayout ==
    encOut.kind = "bleno" =>
        /\ ~encOut.raised
        /\ Len(encOut.buffer) = 9
        /\ SubSeq(encOut.buffer, 1, 2) = <<68, 2>>
        /\ U16At(encOut.buffer, 2) = orZero(encRecord, "speed")
        /\ U16At(encOut.buffer, 4)
              = RoundDiv(2 * orZero(encRecord, "cadence"), 100)
        /\ U16At(encOut.buffer, 6)
              = TruncDiv(orZero(encRecord, "power"), 100) % 65536
        /\ encOut.buffer[9] = TruncDiv(orZero(encRecord, "heartRate"), 100)

FeatureWordsHold(buf) ==
    /\ Len(buf) = 8
    /\ BitSet(U32At(buf, 0), 1)
    /\ BitSet(U32At(buf, 0), 14)
    /\ U32At(buf, 4) = 0

\* C19: the Fitness Machine Feature value served to a reader is 8 bytes,
\* two 32-bit little-endian words: the features word asserts at least the
\* cadence bit (1) and the power-measurement bit (14), and the
\* target-settings word is 0.
C19_FeatureAssertsCadencePower ==
    (encOut.kind \in {"blenoFeature", "forwarderFeature"}) =>
        (~encOut.raised /\ FeatureWordsHold(encOut.buffer))

\* The record of the worked example: power 150, cadence 85, heart rate 120,
\* speed 28.4.
ExampleRecord == FtmsOutput(15000, 8500, 12000, 2840)

\* The record given to the encoder has the members of the worked example
\* (a NaN member is no number of the example).
IsExampleRecord ==
    /\ DOMAIN encRecord = DOMAIN ExampleRecord
    /\ \A k \in DOMAIN encRecord :
          ~IsNaN(encRecord[k]) /\ encRecord[k] = ExampleRecord[k]

\* C20 as stated: encoding {power:150, cadence:85, heartRate:120,
\* speed:28.4} yields [0x44,0x02, 0x1C,0x0B, 0xAA,0x00, 0x96,0x00, 0x78].
C20_ExampleBufferAsStated ==
    (encOut.kind = "bleno" /\ IsExampleRecord) =>
        (~encOut.raised
         /\ encOut.buffer = <<68, 2, 28, 11, 170, 0, 150, 0, 120>>)

\* C20, amended: encoding {power:150, cadence:85, heartRate:120,
\* speed:28.4} yields [0x44,0x02, 0x18,0x0B, 0xAA,0x00, 0x96,0x00, 0x78]:
\* the speed bytes are 2840 = 0x0B18 little-endian.
C20_ExampleBuffer ==
    (encOut.kind = "bleno" /\ IsExampleRecord) =>
        (~encOut.raised
         /\ encOut.buffer = <<68, 2, 24, 11, 170, 0, 150, 0, 120>>)

\* The example record was encoded.
C20_Witness ==
    /\ encOut.kind = "bleno" /\ ~encOut.raised
    /\ IsExampleRecord
    /\ U16At(encOut.buffer, 2) = 2840

----------------------------------------------------------------------------
(* Properties of the bleno broadcaster, checked under SpecBleno.           *)

\* A timer callback hands a buffer to at least one subscriber.
BikeTickDelivers ==
    \E i \in 1..Len(bikeChars) :
        /\ BikeTick(i)
        /\ bikeChars[i].subscribers > 0
        /\ ~_buildIndoorBikeData(bikeChars[i].currentData).raised

\* C16: after BlenoBroadcaster.stop() returns, no Indoor Bike Data
\* notification is delivered to any subscriber until start() is called
\* again.
C16_StopEndsNotifications ==
    [][BikeTickDelivers => ~stoppedSince]_vars

----------------------------------------------------------------------------
(* Properties of the registry lookup, checked under SpecParser.            *)

\* The representations of the characteristic UUID 0x2ad2 that parse() is
\* given in the model: numeric, "0x"-string with leading zeros, 128-bit.
FormsOf2ad2 ==
    { NumUuid(10962), StrUuid(<<"0","x","0","0","2","A","D","2">>),
      Uuid128Of2ad2 }

\* C21: every representation of the same characteristic UUID (numeric
\* 0x2ad2, the string "0x2ad2" with leading zeros, the 128-bit string)
\* normalizes to the same registry key and looks up the same device spec
\* (stated as the claim states it; the code returns a 128-bit string
\* lower-cased and whole, which is no key of the registry).
C21_SameUuidSameKey ==
    (Done /\ inUuid \in FormsOf2ad2) =>
        /\ normalizeUuid(inUuid) = normalizeUuid(NumUuid(10962))
        /\ result = parse(NumUuid(10962), inPayload)

----------------------------------------------------------------------------
(* Properties of the registry load, checked under SpecRegistry.            *)

\* Positions of the files that can be registered (they have the field
\* the key is made of).
Keyed(files) ==
    {i \in 1..Len(files) : "characteristicUuid" \notin files[i].missing}

FileKey(file) == normalizeUuid(StrUuid(file.spec.characteristicUuid))

\* Positions of the offending files: a required root field is missing, or
\* the characteristic key is the key of an earlier file.
Offending(files) ==
    {i \in 1..Len(files) :
        \/ files[i].missing # {}
        \/ \E j \in Keyed(files) :
              j < i /\ i \in Keyed(files)
              /\ FileKey(files[j]) = FileKey(files[i])}

\* C22: loading the registry fails at load time, with an error naming the
\* offending spec, when a spec lacks a required root field or maps to a
\* characteristic key already registered; no parse call is ever served
\* by such a registry (stated as the claim states it; the code validates
\* nothing at load time).
C22_LoadFailsFast ==
    (loadOutcome.status # "pending" /\ Offending(specFiles) # {}) =>
        /\ loadOutcome.status # "loaded"
        /\ \E i \in Offending(specFiles) :
              loadOutcome.spec = specFiles[i].spec.id
        /\ pc # "done"

----------------------------------------------------------------------------
(* Properties of the decoded record, checked under SpecParser.             *)

\* The payload passes the minLength check and every validation rule of
\* the spec the characteristic maps to.
Accepted == HasSpec /\ Len(inPayload) >= TheSpec.minLength /\ ~ValidationFails

\* C23: every payload that passes minLength and all validation rules
\* yields a record with sourceType = spec.id, also when it holds no metric
\* field; a record for an unknown characteristic or a rejected payload has
\* no sourceType (stated as the claim states it; for an accepted payload
\* the field loops can raise the RangeError of C1, and then there is no
\* record).
C23_AcceptedIsTagged ==
    Done =>
        IF Accepted
        THEN /\ ~result.raised
             /\ "sourceType" \in DOMAIN result.data
             /\ result.data["sourceType"] = TheSpec.id
        ELSE /\ ~result.raised
             /\ "sourceType" \notin DOMAIN result.data

\* Static field f lies within the payload.
Fits(f) == f.offset + getTypeSize(f.type) <= Len(inPayload)

\* The spec with the static fields that do not fit in the payload left out
\* of its declaration.
FittingFields == SelectSeq(TheSpec.fields, Fits)

\* Static field j is the last declared field of its name, and no computed
\* field writes that name.
LastWriter(j) ==
    /\ TheSpec.fields[j].name \notin ComputedNames
    /\ \A k \in (j + 1)..Len(TheSpec.fields) :
            TheSpec.fields[k].name # TheSpec.fields[j].name

\* C24: in static mode a field whose offset+width exceeds the payload
\* length is skipped without error, and the fields declared after it that
\* fit in the payload are still read and stored: the fields that do not
\* fit change nothing in the outcome, and a later fitting field that was
\* read is in the record with the value at its offset.
C24_StaticSkipContinues ==
    (Done /\ Accepted /\ IsStatic) =>
        LET tr == result.trace
            fs == TheSpec.fields
            without == parseWithSpec([TheSpec EXCEPT !.fields = FittingFields],
                                     inPayload)
        IN
        /\ \A i \in 1..Len(tr) : ~Fits(fs[i]) => tr[i].kind = "short"
        /\ result.raised = without.raised
        /\ result.data = without.data
        /\ ~result.raised =>
             /\ Len(tr) = Len(fs)
             /\ \A i \in 1..Len(fs) : \A j \in (i + 1)..Len(fs) :
                   (~Fits(fs[i]) /\ Fits(fs[j])) =>
                      /\ tr[j].kind \in {"read", "condition"}
                      /\ (/\ tr[j].kind = "read"
                          /\ ~startsWithUnderscore(fs[j].name)
                          /\ LastWriter(j))
                         => /\ fs[j].name \in DOMAIN result.data
                            /\ result.data[fs[j].name] =
                                 ScaleAndRound(
                                    readValue(inPayload, fs[j].offset,
                                              fs[j].type, fs[j].endian),
                                    fs[j].divisor, fs[j].multiplier)

\* The payload [0x4B, 0x54] of the out-of-order spec: power at offset 2
\* does not fit, heartRate and gear declared after it are stored.
C24_Witness ==
    /\ Done /\ inUuid = NumUuid(10845) /\ inPayload = <<75, 84>>
    /\ ~result.raised
    /\ result.trace[1].kind = "short"
    /\ "power" \notin DOMAIN result.data
    /\ result.data["heartRate"] = 7500
    /\ result.data["gear"] = 8400

\* The declared fields of the spec in the mode it is parsed in, and the
\* endianness each is read with.
ModeFields == IF IsDynamic THEN TheSpec.dynamicFields ELSE TheSpec.fields

ReadEndian(k) == IF IsDynamic THEN "little" ELSE TheSpec.fields[k].endian

\* Loop iteration k read a value that the returned record holds: the name
\* is stored, and neither a later iteration nor a computed field wrote it.
StoredRead(k) ==
    /\ result.trace[k].kind = "read"
    /\ ~startsWithUnderscore(ModeFields[k].name)
    /\ ModeFields[k].name \notin ComputedNames
    /\ \A n \in (k + 1)..Len(result.trace) :
          result.trace[n].kind = "read"
              => ModeFields[n].name # ModeFields[k].name

Abs(x) == IF x < 0 THEN -x ELSE x

\* v (in hundredths) is (R / D) * M rounded to 2 decimal places: no number
\* of hundredths is nearer to the exact quotient.  A divisor or multiplier
\* that is not given is 1.
RoundedScaled(v, R, D, M) ==
    LET d == IF D = 0 THEN 1 ELSE D
        m == IF M = 0 THEN 1 ELSE M
        n == IF d > 0 THEN 100 * R * m ELSE -(100 * R * m)
        below == n \div Abs(d)
        rest  == n % Abs(d)
    IN  \/ v = below /\ 2 * rest <= Abs(d)
        \/ v = below + 1 /\ 2 * rest >= Abs(d)

\* C25: the stored value of a field is round((R / D) * M, 2) for its raw
\* value R, divisor D and multiplier M, in static and in dynamic mode
\* alike.
C25_StoredIsScaledRounded ==
    Decoded =>
        \A k \in 1..Len(result.trace) :
            StoredRead(k) =>
                LET f == ModeFields[k]
                    R == readValue(inPayload, result.trace[k].offset, f.type,
                                   ReadEndian(k))
                IN  /\ f.name \in DOMAIN result.data
                    /\ RoundedScaled(result.data[f.name], R, f.divisor,
                                     f.multiplier)

\* Static mode, raw value -1 with divisor 8 and multiplier 3: -0.375 is
\* stored as -0.37; dynamic mode has the same scaling (75 / 8 * 3 = 28.125
\* stored as 28.13, checked by the formula on the "linked" spec).
C25_Witness ==
    /\ Done /\ inUuid = NumUuid(10845) /\ inPayload = <<75, 84, 255, 255>>
    /\ IsStatic /\ StoredRead(1)
    /\ result.data["power"] = -37

----------------------------------------------------------------------------
(* Properties of the renderer's conversion, checked under SpecRenderer.    *)

\* The tick hands a converted snapshot to the broadcaster.
TickSends == Tick /\ ~latestFitnessData.isNull /\ isBroadcasting

\* C27: convertToFtmsOutput sets power and cadence to 0 when the merged
\* snapshot lacks them, passes them through unchanged when it has them,
\* and leaves heart rate absent when the snapshot has none.
C27_ConvertDefaults ==
    [][TickSends =>
          LET f   == latestFitnessData.fields
              out == lastSent'
          IN  /\ out.power = IF "power" \in DOMAIN f THEN f["power"] ELSE 0
              /\ out.cadence =
                    IF "cadence" \in DOMAIN f THEN f["cadence"] ELSE 0
              /\ ("heartRate" \in DOMAIN out) = ("heartRate" \in DOMAIN f)
              /\ ("heartRate" \in DOMAIN f)
                    => out["heartRate"] = f["heartRate"]]_vars

\* A snapshot with cadence 75 and neither power nor heart rate was sent as
\* power 0, cadence 75, no heart rate.
C27_Witness ==
    /\ ~latestFitnessData.isNull /\ isBroadcasting
    /\ DOMAIN latestFitnessData.fields =
          {"cadence", "sourceType", "ratio", "load", "total", "share"}
    /\ latestFitnessData.fields["cadence"] = 7500
    /\ lastSent = [power |-> 0, cadence |-> 7500]

----------------------------------------------------------------------------
(* Properties of the Heart Rate Measurement decoders, checked under        *)
(* SpecHeartRate.                                                          *)

\* C28: a Heart Rate Measurement payload decodes to the uint8 at offset 1
\* when bit 0 of the flags byte is 0 ([0x00, 0x47] gives 71) and to the
\* little-endian uint16 at offset 1 when bit 0 is 1 ([0x01, 0x8C, 0x00]
\* gives 140), for every payload that holds the value's bytes.
C28_HeartRateFormat ==
    (hrParsed.by # "none" /\ Len(inPayload) >= 1) =>
        LET wide == inPayload[1] % 2 = 1 IN
        /\ (~wide /\ Len(inPayload) >= 2) =>
              /\ ~hrParsed.raised
              /\ hrParsed.heartRate = inPayload[2]
        /\ (wide /\ Len(inPayload) >= 3) =>
              /\ ~hrParsed.raised
              /\ hrParsed.heartRate = inPayload[2] + 256 * inPayload[3]
        /\ inPayload = <<0, 71>> => hrParsed.heartRate = 71
        /\ inPayload = <<1, 140, 0>> => hrParsed.heartRate = 140

\* The 16-bit example decoded by parseHeartRateMeasurement.
C28_Witness ==
    /\ hrParsed.by = "parseHeartRateMeasurement"
    /\ inPayload = <<1, 140, 0>>
    /\ ~hrParsed.raised /\ hrParsed.heartRate = 140

----------------------------------------------------------------------------
(* Properties of PythonBroadcaster, checked under SpecPython.              *)

\* C29: after stop() has been called on a held process and until the next
\* call of start(), no step spawns a broadcaster process: the exit of the
\* stopped process is not restarted, whatever status lines the process
\* wrote between stop() and its exit.
C29_NoSpawnAfterStop ==
    [][(pyStoppedSince /\ pyStoppedSince')
          => Len(python'.alive) = Len(python.alive)]_vars

\* The process held by the object exits while the status is neither
\* stopped nor error.
ExitedUnexpectedly ==
    /\ python.process # 0
    /\ python.state \notin {"stopped", "error"}
    /\ python.alive[python.process]
    /\ python'.alive = [python.alive EXCEPT ![python.process] = FALSE]

\* C30: a process that keeps exiting unexpectedly is restarted at most
\* maxRestartAttempts times in a row; the exit after the last restart
\* sets the error state 'Broadcaster crashed too many times' and schedules
\* no restart.
C30_RestartsBounded ==
    [][/\ pyRestartsInRow' <= maxRestartAttempts
       /\ (pyRestartsInRow = maxRestartAttempts /\ ExitedUnexpectedly)
             => /\ python'.state = "error"
                /\ python'.error = CrashedTooManyTimes
                /\ python'.restartTimers = python.restartTimers]_vars

\* C31: at most one child process spawned by PythonBroadcaster is alive at
\* any time.  Checked in the form that favours the code: a child that
\* kill() was called on is not counted, although it runs until it exits.
C31_AtMostOneAlive ==
    Cardinality(Running(1..Len(python.alive)) \ pyKilled) <= 1

\* C32: when the 2 s timer of a stop() fires and kills a process, that
\* process is the one that was running when that stop() was called.
C32_KillOnlyStoppedProcess ==
    [][(/\ python.killTimers # <<>>
        /\ python'.killTimers = Tail(python.killTimers)
        /\ python.process # 0)
          => python.process = Head(python.killTimers)]_vars

----------------------------------------------------------------------------
(* A further property of the bleno broadcaster, checked under SpecBleno.   *)

\* C33: from a call of BlenoBroadcaster.stop() until the next call of
\* start(), getStatus() is 'stopped' and isRunning() is false, whatever
\* bleno events arrive in between.
C33_StoppedStaysStopped ==
    stoppedSince => (blenoStatus = "stopped" /\ ~isRunning)

----------------------------------------------------------------------------
(* Properties of one IndoorBikeDataCharacteristic, checked under           *)
(* SpecBikeChar.                                                           *)

\* C34: after any sequence of onSubscribe and onUnsubscribe calls the
\* 250 ms timer runs if and only if a subscriber callback is registered,
\* at most one timer exists, and a tick calls the callback of no client
\* that has unsubscribed.
C34_TimerIffSubscribers ==
    /\ (bikeChar.liveTimers > 0) <=> (bikeChar.subscribers > 0)
    /\ bikeChar.subscribers = Len(bikeCallbacks)
    /\ bikeChar.liveTimers <= 1
    /\ bikeInvoked \subseteq bikeSubscribed

----------------------------------------------------------------------------
(* Further properties of the renderer, checked under SpecRenderer.         *)

\* A decode result without any field reaches the merge.
EmptyRecordStep ==
    RawDataStep /\ ~result'.raised /\ result'.data = EmptyRecord

\* C35: a decode result with no fields (unknown characteristic, rejected
\* payload) does not change what the tick hands to the broadcaster: a
\* snapshot that was null stays null (the tick sends nothing), and one
\* that was not null converts to the same output record.
C35_EmptyRecordChangesNothing ==
    [][EmptyRecordStep =>
          /\ latestFitnessData'.isNull = latestFitnessData.isNull
          /\ ~latestFitnessData.isNull =>
                convertToFtmsOutput(latestFitnessData')
                    = convertToFtmsOutput(latestFitnessData)]_vars

----------------------------------------------------------------------------
(* The decoded heart rate carried to the outbound encoder, checked under   *)
(* SpecHeartRate.                                                          *)

\* The FtmsOutput the renderer's tick sends when the snapshot holds the
\* decoded heart rate alone (the encoder's arguments are in hundredths).
FtmsOutputOfHeartRate ==
    convertToFtmsOutput(
        mergeRecord(Null, "heartRate" :> 100 * hrParsed.heartRate))

\* C36: for every heart rate a decoder returns, a 16-bit one above 255
\* included, _buildIndoorBikeData of the resulting FtmsOutput returns a
\* buffer and raises nothing.
C36_EncoderNeverRaises ==
    (hrParsed.by # "none" /\ ~hrParsed.raised)
        => ~_buildIndoorBikeData(FtmsOutputOfHeartRate).raised

\* C37: every connection change (a disconnect, or a connect, which stops
\* the previous interval first) leaves the snapshot null; a tick sends the
\* conversion of the snapshot and nothing when the snapshot is null; the
\* first record merged into a null snapshot brings its own fields only.
\* So no value decoded before a disconnect is sent after it.
C37_DisconnectClearsSnapshot ==
    [][/\ ConnectionChangeStep => latestFitnessData' = Null
       /\ TickSends => lastSent' = convertToFtmsOutput(latestFitnessData)
       /\ (Tick /\ latestFitnessData.isNull) => lastSent' = lastSent
       /\ (RawDataStep /\ ~result'.raised /\ latestFitnessData.isNull)
             => latestFitnessData'.fields = result'.data]_vars

\* A power of 84 W was sent to the broadcaster, the device disconnected and
\* connected again: the interval runs and the snapshot is null.
C37_Witness ==
    /\ updateInterval /\ liveIntervals = 1 /\ isBroadcasting
    /\ latestFitnessData = Null
    /\ "power" \in DOMAIN lastSent /\ lastSent["power"] = 8400

----------------------------------------------------------------------------
(* Encoder and decoder together, checked under SpecRoundTrip.              *)

\* The decode of the buffer the last encoder call returned.
DecodedOf(kind) ==
    /\ ftmsDecoded.decoded
    /\ encOut.kind = kind /\ ~encOut.raised
    /\ ftmsDecoded.buffer = encOut.buffer

\* C38: parseFtmsIndoorBikeData of the buffer an Indoor Bike Data encoder
\* returned raises nothing and returns the encoded power (the integer part
\* of the record's power, the record's power when it is whole) and the
\* encoded heart rate exactly, and a cadence within 0.5 rpm of the
\* record's, for the 9-byte bleno buffer and the 19-byte C# buffer of a
\* record whose cadence, doubled and cut to an integer, fits 16 bits.
C38_RoundTrip ==
    /\ DecodedOf("bleno") =>
          LET d == ftmsDecoded.data IN
          /\ ~ftmsDecoded.raised
          /\ {"power", "heartRate", "cadence"} \subseteq DOMAIN d
          /\ d["power"] = 100 * TruncDiv(orZero(encRecord, "power"), 100)
          /\ d["heartRate"]
                = 100 * TruncDiv(orZero(encRecord, "heartRate"), 100)
          /\ Abs(d["cadence"] - orZero(encRecord, "cadence")) <= 50
    /\ (/\ DecodedOf("forwarder")
        /\ TruncDiv(encFitness.Cadence * 2, 100) \in 0..65535) =>
          LET d == ftmsDecoded.data IN
          /\ ~ftmsDecoded.raised
          /\ {"power", "heartRate", "cadence"} \subseteq DOMAIN d
          /\ d["power"] = 100 * encFitness.Power
          /\ d["heartRate"] = 100 * encFitness.HeartRate
          /\ Abs(d["cadence"] - encFitness.Cadence) <= 50

\* The C# buffer of power 200, cadence 90.5, heart rate 130 with distance,
\* energy and elapsed time was decoded: power 200, heart rate 130,
\* cadence 90.5.
C38_Witness ==
    /\ DecodedOf("forwarder")
    /\ encFitness = FitnessData(200, 9050, 130, 70000, 300, 600)
    /\ ftmsDecoded.data["power"] = 20000
    /\ ftmsDecoded.data["heartRate"] = 13000
    /\ ftmsDecoded.data["cadence"] = 9050

====
